---------------------------- MODULE Spec2Model ----------------------------
(***************************************************************************)
(* Model of the manager-contract orchestration layer of plugin-proagent:   *)
(*   src/src/aerodrome.ts       class AerodromeManager (the chain gateway / *)
(*                              manager session)                            *)
(*   src/src/aerodromeUtils.ts  the operation orchestrator                  *)
(*                                                                         *)
(* A session is one AerodromeManager instance.  initialize() is modelled   *)
(* step by step, one action per resumption after an await, so that two     *)
(* calls on one session interleave at their suspension points.  The other  *)
(* gateway operations are one action each; the result record of the last   *)
(* one is kept in `last`, together with the chain calls it issued (its     *)
(* trace) and the session state it found (pre).                            *)
(***************************************************************************)
EXTENDS Integers, Sequences, FiniteSets, TLC

VARIABLES
    sess,          \* [Sessions -> session record]: the AerodromeManager fields
    call,          \* [Calls -> call record]: the running initialize() calls
    chainManager,  \* what factory.getUserManager(user) answers on chain
    addresses,     \* the symbols this.addresses resolves (the address table)
    abis,          \* which of the imported contract ABIs loaded, and how
    last,          \* result of the last completed gateway operation
    wf             \* the orchestrator workflow in progress (SpecOrch)

vars == <<sess, call, chainManager, addresses, abis, last, wf>>

----------------------------------------------------------------------------
(* Values *)

Null == "null"
ZeroAddress == "0x0"
ManagerAddr == "0xManager"
User == "0xUser"
Other == "0xOther"

\* tokenSymbols of getManagerBalances
TokenSymbols == <<"USDC", "WETH", "AERO", "VIRTUAL", "TN100x", "VEIL">>
Symbols == {TokenSymbols[i] : i \in 1..Len(TokenSymbols)}

\* AddressMap: the token keys the interface requires; TN100x and VEIL come
\* under its index signature only
AddressTables == {t \in SUBSET Symbols : {"USDC", "WETH", "AERO", "VIRTUAL"} \subseteq t}

\* the imported ABI files: the factory's and the voter's load or not; the
\* manager's loads, is missing (no array), or is an array the Contract
\* constructor rejects.  No code reaches an ABI past one that is bad, so
\* the configurations with one bad ABI are all there is to tell apart.
AbiConfigs ==
    {a \in [factory : BOOLEAN, manager : {"ok", "missing", "malformed"}, voter : BOOLEAN] :
        \/ a.factory /\ a.voter
        \/ a.manager = "ok" /\ (a.factory # a.voter)}

Sessions == {"S", "M1", "M2"}
Calls == {"A", "B", "O1", "O2"}
\* A and B are two callers of the one session S; O1 and O2 are the
\* initialize() calls the orchestrator makes on the managers it creates
SessionOf(c) == CASE c = "A" -> "S" [] c = "B" -> "S"
                  [] c = "O1" -> "M1" [] c = "O2" -> "M2"

\* messages of initialize()
MsgThrown == "error.message"

\* chain calls: <<kind, contract, function>>
Read(target, fn) == <<"read", target, fn>>
Tx(target, fn) == <<"tx", target, fn>>
Wait(target, fn) == <<"wait", target, fn>>
TxsOf(trace) == {i \in 1..Len(trace) : trace[i][1] = "tx"}
ManagerTxsOf(trace) == {i \in TxsOf(trace) : trace[i][2] = "manager"}

----------------------------------------------------------------------------
(* The session: constructor *)

NewSession ==
    [ factoryContract |-> Null,
      managerContract |-> Null,
      managerAddress  |-> Null,
      voterContract   |-> Null,
      initializing    |-> FALSE,
      initialized     |-> FALSE ]

IdleCall == [pc |-> "idle", trace |-> <<>>, userAddress |-> Null,
             aerodromeFactoryAddress |-> Null,
             ret |-> [success |-> FALSE, message |-> "pending", managerAddress |-> Null]]

InFlight(c) == call[c].pc \in {"getSigner", "getAddress", "getUserManager", "owner",
                             "aerodromeFactory", "setAerodromeFactory", "txWait"}

Returned(cr, ok, msg, addr) ==
    [cr EXCEPT !.pc = "done",
               !.ret = [success |-> ok, message |-> msg, managerAddress |-> addr]]
Logged(cr, ev) == [cr EXCEPT !.trace = Append(@, ev)]

----------------------------------------------------------------------------
(* initialize() *)

\* a guard that lets an initialized session through
AlreadyInitializedOnlyWhileLocked(s) == sess[s].initialized /\ sess[s].initializing

\* if (this.initialized)
AlreadyInitialized(s) == sess[s].initialized

\* a guard that looks at the wrong flag
InitInProgressByWrongFlag(s) == sess[s].initialized

\* if (this.initializing)
InitInProgress(s) == sess[s].initializing

\* new ethers.Contract(FACTORY, ...) inside its try: the handle, or the
\* early return; then the call suspends in signer.getAddress()
InitFactoryContract(c, locked, cr) ==
    LET s == SessionOf(c) IN
    IF abis.factory
    THEN /\ sess' = [locked EXCEPT ![s].factoryContract = "factoryHandle"]
         /\ call' = [call EXCEPT ![c] = [cr EXCEPT !.pc = "getAddress"]]
    ELSE /\ sess' = locked
         /\ call' = [call EXCEPT ![c] = Returned(cr, FALSE, "Failed to initialize factory contract. Please check the ABI and address.", Null)]

\* typeof provider.getSigner === 'function': a caller of the gateway may
\* pass either kind of provider; the orchestrator passes an ethers Wallet,
\* which has no getSigner
HasGetSigner(c) == IF c \in {"O1", "O2"} THEN {FALSE} ELSE BOOLEAN

\* entry of initialize(): the two guards, the lock, and the code up to the
\* first await
InitializeEnter(c) ==
    LET s == SessionOf(c) IN
    /\ call[c].pc = "idle"
    /\ IF AlreadyInitialized(s)
       THEN /\ call' = [call EXCEPT ![c] = Returned(IdleCall, TRUE, "Already initialized", Null)]
            /\ UNCHANGED sess
       ELSE IF InitInProgress(s)
       THEN /\ call' = [call EXCEPT ![c] = Returned(IdleCall, FALSE, "Initialization already in progress", Null)]
            /\ UNCHANGED sess
       ELSE LET locked == [sess EXCEPT ![s].initializing = TRUE] IN
            \E hasGetSigner \in HasGetSigner(c) :
                IF hasGetSigner
                THEN /\ sess' = locked
                     /\ call' = [call EXCEPT ![c] =
                                   [Logged(IdleCall, Read("provider", "getSigner"))
                                        EXCEPT !.pc = "getSigner"]]
                ELSE InitFactoryContract(c, locked, IdleCall)
    /\ UNCHANGED <<chainManager, addresses, abis, last, wf>>

\* await provider.getSigner() resolved or threw (caught, warning only)
InitGetSigner(c) ==
    /\ call[c].pc = "getSigner"
    /\ InitFactoryContract(c, sess, call[c])
    /\ UNCHANGED <<chainManager, addresses, abis, last, wf>>

\* await signer.getAddress(): outside every inner try, so a throw reaches the
\* outer catch, which releases the lock
InitGetAddress(c) ==
    LET s == SessionOf(c) IN
    /\ call[c].pc = "getAddress"
    /\ \E ok \in BOOLEAN :
        IF ok
        THEN /\ call' = [call EXCEPT ![c] =
                          [Logged(@, Read("factory", "getUserManager"))
                               EXCEPT !.pc = "getUserManager", !.userAddress = User]]
             /\ UNCHANGED sess
        ELSE /\ sess' = [sess EXCEPT ![s].initializing = FALSE]
             /\ call' = [call EXCEPT ![c] = Returned(@, FALSE, MsgThrown, Null)]
    /\ UNCHANGED <<chainManager, addresses, abis, last, wf>>

\* await factoryContract.getUserManager(userAddress), the zero-address
\* check, the ABI check and the manager contract handle
InitGetUserManager(c) ==
    LET s == SessionOf(c) IN
    /\ call[c].pc = "getUserManager"
    /\ \E threw \in BOOLEAN :
        IF threw
        THEN /\ call' = [call EXCEPT ![c] = Returned(@, FALSE, "Failed to call getUserManager.", Null)]
             /\ UNCHANGED sess
        ELSE LET m == chainManager
                 got == [sess EXCEPT ![s].managerAddress = m] IN
             IF m = ZeroAddress
             THEN /\ sess' = got
                  /\ call' = [call EXCEPT ![c] = Returned(@, FALSE, "No manager found for your address. Create one first.", Null)]
             ELSE IF abis.manager = "missing"
             THEN /\ sess' = got
                  /\ call' = [call EXCEPT ![c] = Returned(@, FALSE, "Manager ABI is not properly loaded. Please check your ABI files.", Null)]
             ELSE IF abis.manager = "malformed"
             THEN /\ sess' = got
                  /\ call' = [call EXCEPT ![c] = Returned(@, FALSE, "Failed to initialize manager contract. Please check the ABI and address.", Null)]
             ELSE /\ sess' = [got EXCEPT ![s].managerContract = m]
                  /\ call' = [call EXCEPT ![c] =
                                [Logged(@, Read("manager", "owner")) EXCEPT !.pc = "owner"]]
    /\ UNCHANGED <<chainManager, addresses, abis, last, wf>>

\* owner.toLowerCase() !== userAddress.toLowerCase()
OwnerMismatch(owner, userAddress) == owner # userAddress

\* await managerContract.owner() and the ownership check
InitOwner(c) ==
    /\ call[c].pc = "owner"
    /\ \E threw \in BOOLEAN, owner \in {User, Other} :
        IF threw
        THEN call' = [call EXCEPT ![c] = Returned(@, FALSE, "Failed to verify manager ownership. The contract might not be compatible.", Null)]
        ELSE IF OwnerMismatch(owner, call[c].userAddress)
        THEN call' = [call EXCEPT ![c] = Returned(@, FALSE, "You are not the owner of this manager.", Null)]
        ELSE call' = [call EXCEPT ![c] =
                        [Logged(@, Read("manager", "aerodromeFactory"))
                             EXCEPT !.pc = "aerodromeFactory"]]
    /\ UNCHANGED <<sess, chainManager, addresses, abis, last, wf>>

\* an initialize() for which the voter handle is not optional
InitFinishVoterRequired(c) ==
    LET s == SessionOf(c) IN
    IF abis.voter
    THEN /\ sess' = [sess EXCEPT ![s].voterContract = "voterHandle",
                                 ![s].initialized = TRUE,
                                 ![s].initializing = FALSE]
         /\ call' = [call EXCEPT ![c] = Returned(@, TRUE, "", sess[s].managerAddress)]
    ELSE /\ sess' = [sess EXCEPT ![s].initializing = FALSE]
         /\ call' = [call EXCEPT ![c] = Returned(@, FALSE, MsgThrown, Null)]

\* the voter handle (best effort), the flags and the success return
InitFinish(c) ==
    LET s == SessionOf(c) IN
    /\ sess' = [sess EXCEPT ![s].voterContract = IF abis.voter THEN "voterHandle" ELSE @,
                            ![s].initialized = TRUE,
                            ![s].initializing = FALSE]
    /\ call' = [call EXCEPT ![c] = Returned(@, TRUE, "", sess[s].managerAddress)]

\* a test that finds every factory pointer unset
FactoryPointerUnsetAlways(r) == TRUE

\* !aerodromeFactoryAddress || aerodromeFactoryAddress === ethers.ZeroAddress
FactoryPointerUnset(r) == r \in {Null, ZeroAddress}

\* await managerContract.aerodromeFactory(): a throw leaves the local null;
\* the call keeps the answer on which it goes on to set the pointer
InitAerodromeFactory(c) ==
    /\ call[c].pc = "aerodromeFactory"
    /\ \E r \in {Null, ZeroAddress, "0xAeroFactory"} :
        IF FactoryPointerUnset(r)
        THEN /\ call' = [call EXCEPT ![c] =
                          [Logged(@, Tx("manager", "setAerodromeFactory"))
                               EXCEPT !.pc = "setAerodromeFactory",
                                      !.aerodromeFactoryAddress = r]]
             /\ UNCHANGED sess
        ELSE InitFinish(c)
    /\ UNCHANGED <<chainManager, addresses, abis, last, wf>>

\* await managerContract.setAerodromeFactory(...): the submission
InitSetAerodromeFactory(c) ==
    /\ call[c].pc = "setAerodromeFactory"
    /\ \E ok \in BOOLEAN :
        IF ok
        THEN call' = [call EXCEPT ![c] =
                        [Logged(@, Wait("manager", "setAerodromeFactory"))
                             EXCEPT !.pc = "txWait"]]
        ELSE call' = [call EXCEPT ![c] = Returned(@, FALSE, "Failed to set Aerodrome factory address. Please check contract permissions.", Null)]
    /\ UNCHANGED <<sess, chainManager, addresses, abis, last, wf>>

\* await tx.wait(): the confirmation
InitTxWait(c) ==
    /\ call[c].pc = "txWait"
    /\ \E ok \in BOOLEAN :
        IF ok
        THEN InitFinish(c)
        ELSE /\ call' = [call EXCEPT ![c] = Returned(@, FALSE, "Failed to set Aerodrome factory address. Please check contract permissions.", Null)]
             /\ UNCHANGED sess
    /\ UNCHANGED <<chainManager, addresses, abis, last, wf>>

\* the steps of the initialize() call c after its entry
InitializeStep(c) ==
    \/ InitGetSigner(c)
    \/ InitGetAddress(c)
    \/ InitGetUserManager(c)
    \/ InitOwner(c)
    \/ InitAerodromeFactory(c)
    \/ InitSetAerodromeFactory(c)
    \/ InitTxWait(c)

\* the caller takes the result, which it keeps; it may call initialize()
\* again
InitializeReturn(c) ==
    /\ call[c].pc = "done"
    /\ call' = [call EXCEPT ![c].pc = "idle"]
    /\ UNCHANGED <<sess, chainManager, addresses, abis, last, wf>>


----------------------------------------------------------------------------
(* bigint: raw token amounts are JS BigInt values.  A bigint is modelled by *)
(* the sequence of its base-10^4 digits, least significant first, without  *)
(* leading zero digits; 0 is the empty sequence.                           *)

Base == 10000

RECURSIVE BigNorm(_)
BigNorm(a) == IF a = <<>> THEN <<>>
              ELSE IF a[Len(a)] = 0 THEN BigNorm(SubSeq(a, 1, Len(a) - 1))
              ELSE a

RECURSIVE BigOfNat(_)
BigOfNat(n) == IF n = 0 THEN <<>> ELSE <<n % Base>> \o BigOfNat(n \div Base)

RECURSIVE BigMulCarry(_, _, _)
BigMulCarry(a, k, carry) ==
    IF a = <<>> THEN BigOfNat(carry)
    ELSE LET p == Head(a) * k + carry
         IN  <<p % Base>> \o BigMulCarry(Tail(a), k, p \div Base)

\* a * BigInt(k), 0 <= k <= Base
BigMul(a, k) == BigNorm(BigMulCarry(a, k, 0))

\* <<quotient digits, remainder>> of a / d by long division
RECURSIVE BigDivRem(_, _)
BigDivRem(a, d) ==
    IF a = <<>> THEN <<(<<>>), 0>>
    ELSE LET hi  == BigDivRem(Tail(a), d)
             cur == hi[2] * Base + Head(a)
         IN  << <<cur \div d>> \o hi[1], cur % d >>

\* a / BigInt(d): BigInt division truncates
BigDiv(a, d) == BigNorm(BigDivRem(a, d)[1])

RECURSIVE BigPlusCarry(_, _, _)
BigPlusCarry(a, b, carry) ==
    IF a = <<>> /\ b = <<>> THEN BigOfNat(carry)
    ELSE LET x == IF a = <<>> THEN 0 ELSE Head(a)
             y == IF b = <<>> THEN 0 ELSE Head(b)
             t == x + y + carry
         IN  <<t % Base>> \o BigPlusCarry(IF a = <<>> THEN <<>> ELSE Tail(a),
                                          IF b = <<>> THEN <<>> ELSE Tail(b),
                                          t \div Base)

\* a + b
BigPlus(a, b) == BigNorm(BigPlusCarry(a, b, 0))

RECURSIVE BigLess(_, _)
BigLess(a, b) ==
    IF Len(a) # Len(b) THEN Len(a) < Len(b)
    ELSE IF a = <<>> THEN FALSE
    ELSE IF a[Len(a)] # b[Len(b)] THEN a[Len(a)] < b[Len(b)]
    ELSE BigLess(SubSeq(a, 1, Len(a) - 1), SubSeq(b, 1, Len(b) - 1))

BigLeq(a, b) == a = b \/ BigLess(a, b)

Big0 == <<>>
\* a zero test that never finds a zero
IsZeroNever(value) == FALSE

\* isZero(value) for a bigint: value === 0n
isZero(value) == value = Big0

\* sample raw amounts: 1, 1000000, 100000000 (100 USDC),
\* 50000000000000000 (0.05 WETH) and 10^20
Big1 == <<1>>
Big1e6 == <<0, 100>>
Big1e8 == <<0, 0, 1>>
Big5e16 == <<0, 0, 0, 0, 5>>
Big1e20 == <<0, 0, 0, 0, 0, 1>>

----------------------------------------------------------------------------
(* The pool catalog *)

POOLS == <<
    [name |-> "USDC-WETH",    tokenA |-> [symbol |-> "USDC", decimals |-> 6],
     tokenB |-> [symbol |-> "WETH", decimals |-> 18],    stable |-> FALSE, slippage |-> 30],
    [name |-> "USDC-AERO",    tokenA |-> [symbol |-> "USDC", decimals |-> 6],
     tokenB |-> [symbol |-> "AERO", decimals |-> 18],    stable |-> FALSE, slippage |-> 50],
    [name |-> "WETH-VIRTUAL", tokenA |-> [symbol |-> "WETH", decimals |-> 18],
     tokenB |-> [symbol |-> "VIRTUAL", decimals |-> 18], stable |-> FALSE, slippage |-> 30],
    [name |-> "WETH-TN100x",  tokenA |-> [symbol |-> "WETH", decimals |-> 18],
     tokenB |-> [symbol |-> "TN100x", decimals |-> 18],  stable |-> FALSE, slippage |-> 30],
    [name |-> "WETH-VEIL",    tokenA |-> [symbol |-> "WETH", decimals |-> 18],
     tokenB |-> [symbol |-> "VEIL", decimals |-> 18],    stable |-> FALSE, slippage |-> 30] >>

PoolIdx == 1..Len(POOLS)

\* this.pools.find(p => p.name === poolName)
FindPool(poolName) ==
    IF \E i \in PoolIdx : POOLS[i].name = poolName
    THEN CHOOSE i \in PoolIdx : POOLS[i].name = poolName
    ELSE 0

\* decimals of a symbol in getManagerBalances: the first pool holding the
\* symbol decides, 18 when no pool holds it
TokenDecimals(symbol) ==
    LET holding == {i \in PoolIdx : POOLS[i].tokenA.symbol = symbol
                                     \/ POOLS[i].tokenB.symbol = symbol}
    IN  IF holding = {} THEN 18
        ELSE LET p == POOLS[CHOOSE i \in holding : \A j \in holding : i <= j]
             IN  IF p.tokenA.symbol = symbol THEN p.tokenA.decimals
                 ELSE p.tokenB.decimals

\* this.addresses[symbol] is set
HasAddress(symbol) == symbol \in addresses

\* Math.floor(10000 - slippage * 100); slippage is a whole percentage in
\* every catalog entry, so the `?? 0.5` default is never taken
SlippageKeep(slippage) == 10000 - slippage * 100

\* a minimum that rounds up
MinAmountRoundedUp(amountDesired, keep) ==
    BigDiv(BigPlus(BigMul(amountDesired, keep), <<9999>>), 10000)

\* (amountDesired * BigInt(keep)) / BigInt(10000)
MinAmount(amountDesired, keep) == BigDiv(BigMul(amountDesired, keep), 10000)

\* the hard-coded `const slippage = 30` of the orchestrator's addLiquidity
OrchSlippage == 30

----------------------------------------------------------------------------
(* Gateway operations.  Each is an operator from the session and the       *)
(* answers of the chain to its result record:                              *)
(*   op, session, pre (the session fields it found), success, message,     *)
(*   trace (the chain calls it issued, in order), out (its other fields).  *)
(* A chain call that throws is the last one of the trace.                  *)

MsgNotInitialized == "Manager not initialized"

Result(op, s, ok, msg, trace, out) ==
    [op |-> op, session |-> s, pre |-> sess[s], success |-> ok,
     message |-> msg, trace |-> trace, out |-> out]

\* a guard that looks at the address where the code looks at the handle
NoManagerAddress(s) == sess[s].managerAddress = Null

\* if (!this.managerContract)
NoManagerContract(s) == sess[s].managerContract = Null

\* a plan is the sequence of chain calls a straight-line piece of code
\* issues; failAt = 0 lets all of them succeed, failAt = f makes the f-th throw
MaxFailAt == 8
FailPoints == 0..MaxFailAt
Threw(plan, failAt) == failAt \in 1..Len(plan)
Executed(plan, failAt) == IF Threw(plan, failAt) THEN SubSeq(plan, 1, failAt) ELSE plan

\* what a chain read gives when it throws: READFAIL where the answer would
\* be an amount, THROWS where it would be an address or a flag
READFAIL == <<-1>>
THROWS == "throws"

\* the "MAX" and "ALL" amount arguments
MAX == <<-2>>
ALL == <<-3>>

\* getManagerBalances(): reads[symbol] is the answer of getTokenBalance
GetManagerBalancesResult(s, reads) ==
    IF NoManagerContract(s)
    THEN Result("getManagerBalances", s, FALSE, MsgNotInitialized, <<>>, <<>>)
    ELSE LET present == {symbol \in Symbols : HasAddress(symbol)}
             balances == [symbol \in present |->
                 IF reads[symbol] = READFAIL
                 THEN [symbol |-> symbol, balance |-> Big0,
                       decimals |-> IF symbol = "USDC" THEN 6 ELSE 18,
                       formatted |-> "0", error |-> TRUE]
                 ELSE [symbol |-> symbol, balance |-> reads[symbol],
                       decimals |-> TokenDecimals(symbol),
                       formatted |-> "formatUnits", error |-> FALSE]]
             asked == SelectSeq(TokenSymbols, LAMBDA symbol : symbol \in present)
             trace == [i \in 1..Len(asked) |-> Read("manager", "getTokenBalance")]
         IN  Result("getManagerBalances", s, TRUE, "", trace, balances)

\* a test that finds every allowance sufficient
NeedsNoApproval(allowance, amountDesired) == FALSE

\* BigInt(allowance.toString()) < BigInt(amountDesired.toString())
NeedsApproval(allowance, amountDesired) == BigLess(allowance, amountDesired)

\* addLiquidity(poolName): the reads of both balances, the zero check, the
\* minimum amounts, the approvals and the addLiquidityAerodrome transaction
AddLiquidityResult(s, poolName, readA, readB, allowanceA, allowanceB, failAt, eventFound) ==
    LET pool == POOLS[FindPool(poolName)] IN
    IF NoManagerContract(s)
    THEN Result("addLiquidity", s, FALSE, MsgNotInitialized, <<>>, <<>>)
    ELSE IF FindPool(poolName) = 0
    THEN Result("addLiquidity", s, FALSE, "Pool not found", <<>>, <<>>)
    ELSE IF readA = READFAIL
    THEN Result("addLiquidity", s, FALSE, "Failed to retrieve token balances",
                <<Read("manager", "getTokenBalance")>>, [reads |-> <<readA>>])
    ELSE LET balanceReads == <<Read("manager", "getTokenBalance"),
                               Read("manager", "getTokenBalance")>> IN
    IF readB = READFAIL
    THEN Result("addLiquidity", s, FALSE, "Failed to retrieve token balances",
                balanceReads, [reads |-> <<readA, readB>>])
    ELSE IF isZero(readA) \/ isZero(readB)
    THEN Result("addLiquidity", s, FALSE, "Insufficient balance in manager",
                balanceReads, [reads |-> <<readA, readB>>])
    ELSE LET keep == SlippageKeep(pool.slippage)
             args == [amountADesired |-> readA, amountBDesired |-> readB,
                      minAmountA |-> MinAmount(readA, keep),
                      minAmountB |-> MinAmount(readB, keep)]
             approveA == IF NeedsApproval(allowanceA, readA)
                         THEN <<Tx("manager", "approveToken"), Wait("manager", "approveToken")>>
                         ELSE <<>>
             approveB == IF NeedsApproval(allowanceB, readB)
                         THEN <<Tx("manager", "approveToken"), Wait("manager", "approveToken")>>
                         ELSE <<>>
             plan == <<Read("erc20", "allowance")>> \o approveA
                     \o <<Read("erc20", "allowance")>> \o approveB
                     \o <<Tx("manager", "addLiquidityAerodrome"),
                          Wait("manager", "addLiquidityAerodrome")>>
             trace == balanceReads \o Executed(plan, failAt)
             submitted == \E i \in 1..Len(trace) : trace[i] = Tx("manager", "addLiquidityAerodrome")
             out == [reads |-> <<readA, readB>>, pool |-> poolName,
                     args |-> args, submitted |-> submitted,
                     lpTokenInfo |-> IF eventFound THEN "event" ELSE Null]
         IN  IF Threw(plan, failAt)
             THEN Result("addLiquidity", s, FALSE, MsgThrown, trace, out)
             ELSE Result("addLiquidity", s, TRUE, "", trace, out)

\* the fallible chain calls after the checks of an operation: failAt picks
\* the one that throws; the operation's catch turns it into a failure
Finish(op, s, before, plan, failAt, out) ==
    IF Threw(plan, failAt)
    THEN Result(op, s, FALSE, MsgThrown, before \o Executed(plan, failAt), out)
    ELSE Result(op, s, TRUE, "", before \o plan, out)

\* depositTokens(tokenSymbol, amount): parsedAmount is the raw amount
\* parseUnits made of amount, allowance what the token answers
DepositTokensResult(s, tokenSymbol, parsedAmount, allowance, failAt) ==
    IF NoManagerContract(s)
    THEN Result("depositTokens", s, FALSE, MsgNotInitialized, <<>>, <<>>)
    ELSE IF ~HasAddress(tokenSymbol)
    THEN Result("depositTokens", s, FALSE, "Unknown token", <<>>, <<>>)
    ELSE LET approve == IF NeedsApproval(allowance, parsedAmount)
                        THEN <<Tx("erc20", "approve"), Wait("erc20", "approve")>>
                        ELSE <<>>
             plan == <<Read("erc20", "allowance")>> \o approve
                     \o <<Tx("manager", "depositTokens"), Wait("manager", "depositTokens")>>
         IN  Finish("depositTokens", s, <<>>, plan, failAt,
                    [tokenSymbol |-> tokenSymbol, parsedAmount |-> parsedAmount,
                     allowance |-> allowance])


\* a JS number that is a decimal: digits / 10^scale, digits a bigint without
\* a trailing decimal zero unless scale is 0 (the rounding of a number to a
\* double is left out: the amounts met have few digits)
\* Number(ethers.formatUnits(raw, decimals))
RECURSIVE FormatUnits(_, _)
FormatUnits(raw, decimals) ==
    IF raw = Big0 THEN [digits |-> Big0, scale |-> 0]
    ELSE IF decimals > 0 /\ Head(raw) % 10 = 0
    THEN FormatUnits(BigDiv(raw, 10), decimals - 1)
    ELSE [digits |-> raw, scale |-> decimals]

\* ethers.parseUnits(amount.toString(), decimals), amount.scale <= decimals
RECURSIVE ParseUnits(_, _)
ParseUnits(amount, decimals) ==
    IF amount.scale >= decimals THEN amount.digits
    ELSE ParseUnits([digits |-> BigMul(amount.digits, 10), scale |-> amount.scale + 1],
                    decimals)

\* a check that finds every balance sufficient
ExceedsBalanceNever(parsedAmount, currentBalance) == FALSE

\* parsedAmount > currentBalance
ExceedsBalance(parsedAmount, currentBalance) == BigLess(currentBalance, parsedAmount)

\* withdrawTokens(tokenSymbol, amount): amount is "ALL" or the raw amount
\* parseUnits made of the number; out.amount is the number the result
\* carries, the balance formatted when "ALL" was passed
WithdrawTokensResult(s, tokenSymbol, amount, balanceRead, failAt) ==
    IF NoManagerContract(s)
    THEN Result("withdrawTokens", s, FALSE, MsgNotInitialized, <<>>, <<>>)
    ELSE IF ~HasAddress(tokenSymbol)
    THEN Result("withdrawTokens", s, FALSE, "Unknown token", <<>>, <<>>)
    ELSE LET read == <<Read("manager", "getTokenBalance")>> IN
    IF balanceRead = READFAIL
    THEN Result("withdrawTokens", s, FALSE, MsgThrown, read, <<>>)
    ELSE LET parsedAmount == IF amount = ALL THEN balanceRead ELSE amount IN
    IF amount # ALL /\ ExceedsBalance(parsedAmount, balanceRead)
    THEN Result("withdrawTokens", s, FALSE, "Insufficient balance", read, <<>>)
    ELSE Finish("withdrawTokens", s, read,
                <<Tx("manager", "withdrawTokens"), Wait("manager", "withdrawTokens")>>,
                failAt,
                [tokenSymbol |-> tokenSymbol, parsedAmount |-> parsedAmount,
                 amount |-> FormatUnits(parsedAmount, TokenDecimals(tokenSymbol)),
                 recipient |-> User,
                 requested |-> amount, currentBalance |-> balanceRead])

\* removeLiquidity(poolName, percentToRemove): poolRead is the pool address
\* getAerodromePools gave for the pool's kind, lpRead the LP balance
RemoveLiquidityResult(s, poolName, percentToRemove, poolRead, lpRead, failAt) ==
    IF NoManagerContract(s)
    THEN Result("removeLiquidity", s, FALSE, MsgNotInitialized, <<>>, <<>>)
    ELSE IF FindPool(poolName) = 0
    THEN Result("removeLiquidity", s, FALSE, "Unknown pool", <<>>, <<>>)
    ELSE LET r1 == <<Read("manager", "getAerodromePools")>> IN
    IF poolRead = THROWS
    THEN Result("removeLiquidity", s, FALSE, MsgThrown, r1, <<>>)
    ELSE IF poolRead = ZeroAddress
    THEN Result("removeLiquidity", s, FALSE, "Pool does not exist", r1, <<>>)
    ELSE LET r2 == r1 \o <<Read("erc20", "balanceOf")>> IN
    IF lpRead = READFAIL
    THEN Result("removeLiquidity", s, FALSE, "Error parsing LP token balance", r2, <<>>)
    ELSE IF isZero(lpRead)
    THEN Result("removeLiquidity", s, FALSE, "No LP tokens to remove", r2, <<>>)
    ELSE Finish("removeLiquidity", s, r2,
                <<Tx("manager", "removeLiquidityAerodrome"),
                  Wait("manager", "removeLiquidityAerodrome")>>,
                failAt,
                [poolName |-> poolName,
                 amountToRemove |-> BigDiv(BigMul(lpRead, percentToRemove), 100)])


\* stakeLPTokens(lpToken, poolName, amount): amount is "MAX" or the raw
\* amount parseUnits made of the string
StakeLPTokensResult(s, lpToken, poolName, amount, gaugeRead, lpRead, failAt) ==
    IF NoManagerContract(s) \/ sess[s].voterContract = Null
    THEN Result("stakeLPTokens", s, FALSE, "Manager or Voter contract not initialized", <<>>, <<>>)
    ELSE LET r1 == <<Read("voter", "gauges")>> IN
    IF gaugeRead = THROWS
    THEN Result("stakeLPTokens", s, FALSE, MsgThrown, r1, <<>>)
    ELSE IF gaugeRead = ZeroAddress
    THEN Result("stakeLPTokens", s, FALSE, "No gauge found", r1, <<>>)
    ELSE LET r2 == r1 \o <<Read("erc20", "balanceOf")>> IN
    IF lpRead = READFAIL
    THEN Result("stakeLPTokens", s, FALSE, MsgThrown, r2, <<>>)
    ELSE IF isZero(lpRead)
    THEN Result("stakeLPTokens", s, FALSE, "No LP tokens available", r2, <<>>)
    ELSE LET stakeAmount == IF amount = MAX THEN lpRead ELSE amount IN
    IF amount # MAX /\ BigLess(lpRead, stakeAmount)
    THEN Result("stakeLPTokens", s, FALSE, "Insufficient LP tokens", r2, <<>>)
    ELSE Finish("stakeLPTokens", s, r2,
                <<Tx("manager", "stakeLPTokens"), Wait("manager", "stakeLPTokens")>>,
                failAt,
                [lpToken |-> lpToken, poolName |-> poolName,
                 gaugeAddress |-> gaugeRead, stakeAmount |-> stakeAmount,
                 amount |-> amount, balance |-> lpRead])

\* unstakeLPTokens(lpToken, poolName, gaugeAddress, amount)
UnstakeLPTokensResult(s, lpToken, poolName, gaugeAddress, amount, stakedRead, failAt) ==
    IF NoManagerContract(s)
    THEN Result("unstakeLPTokens", s, FALSE, MsgNotInitialized, <<>>, <<>>)
    ELSE LET r1 == <<Read("gauge", "balanceOf")>> IN
    IF stakedRead = READFAIL
    THEN Result("unstakeLPTokens", s, FALSE, MsgThrown, r1, <<>>)
    ELSE IF isZero(stakedRead)
    THEN Result("unstakeLPTokens", s, FALSE, "No staked LP tokens", r1, <<>>)
    ELSE LET unstakeAmount == IF amount = MAX THEN stakedRead ELSE amount IN
    IF amount # MAX /\ BigLess(stakedRead, unstakeAmount)
    THEN Result("unstakeLPTokens", s, FALSE, "Insufficient staked LP tokens", r1, <<>>)
    ELSE Finish("unstakeLPTokens", s, r1,
                <<Tx("manager", "unstakeLPTokens"), Wait("manager", "unstakeLPTokens")>>,
                failAt,
                [lpToken |-> lpToken, poolName |-> poolName,
                 gaugeAddress |-> gaugeAddress, unstakeAmount |-> unstakeAmount])

\* claimRewards(lpToken, poolName, gaugeAddress)
ClaimRewardsResult(s, lpToken, poolName, gaugeAddress, earnedRead, failAt) ==
    IF NoManagerContract(s)
    THEN Result("claimRewards", s, FALSE, MsgNotInitialized, <<>>, <<>>)
    ELSE LET r1 == <<Read("gauge", "earned")>> IN
    IF earnedRead = READFAIL
    THEN Result("claimRewards", s, FALSE, MsgThrown, r1, <<>>)
    ELSE IF isZero(earnedRead)
    THEN Result("claimRewards", s, FALSE, "No rewards to claim", r1, <<>>)
    ELSE Finish("claimRewards", s, r1,
                <<Tx("manager", "claimRewards"), Wait("manager", "claimRewards")>>,
                failAt,
                [lpToken |-> lpToken, poolName |-> poolName,
                 gaugeAddress |-> gaugeAddress])

----------------------------------------------------------------------------
(* LP positions and staked positions *)


\* the pool-matching loop of getLPPositions over this.pools, for a pair whose
\* tokens are t0 and t1: the name of the first pool holding both tokens, in
\* either order.  A pool token the address table lacks has an undefined
\* address, and taking its toLowerCase() throws.
RECURSIVE MatchPoolFrom(_, _, _)
MatchPoolFrom(i, t0, t1) ==
    IF i > Len(POOLS) THEN "Unknown Pool"
    ELSE LET a == POOLS[i].tokenA.symbol
             b == POOLS[i].tokenB.symbol
         IN  IF ~HasAddress(a) THEN "throw"
             ELSE IF a = t0 /\ ~HasAddress(b) THEN "throw"
             ELSE IF a = t0 /\ b = t1 THEN POOLS[i].name
             ELSE IF a = t1 /\ ~HasAddress(b) THEN "throw"
             ELSE IF a = t1 /\ b = t0 THEN POOLS[i].name
             ELSE MatchPoolFrom(i + 1, t0, t1)

MatchPool(t0, t1) == MatchPoolFrom(1, t0, t1)

\* one position of the primary path: p is what the chain holds, [lpToken,
\* balance, token0, token1, tokensOk]
PrimaryPosition(p) ==
    LET name == IF p.tokensOk THEN MatchPool(p.token0, p.token1) ELSE "throw"
    IN  IF name = "throw"
        THEN [lpToken |-> p.lpToken, balance |-> p.balance, poolName |-> "Unknown Pool",
              token0 |-> Null, token1 |-> Null, error |-> TRUE]
        ELSE [lpToken |-> p.lpToken, balance |-> p.balance, poolName |-> name,
              token0 |-> p.token0, token1 |-> p.token1, error |-> FALSE]

PrimaryTrace(p) ==
    IF p.tokensOk THEN <<Read("pair", "token0"), Read("pair", "token1")>>
    ELSE <<Read("pair", "token0")>>

RECURSIVE PrimaryWalk(_)
PrimaryWalk(ps) ==
    IF ps = <<>> THEN [positions |-> <<>>, trace |-> <<>>]
    ELSE LET rest == PrimaryWalk(Tail(ps))
         IN  [positions |-> <<PrimaryPosition(Head(ps))>> \o rest.positions,
              trace |-> PrimaryTrace(Head(ps)) \o rest.trace]

\* one catalog pool of the fallback path: f[i] is what the chain answers for
\* pool i, [pool (address, ZeroAddress or THROWS), balance (or READFAIL)]
FallbackStep(i, f) ==
    LET pool == POOLS[i] IN
    IF ~HasAddress(pool.tokenA.symbol) \/ ~HasAddress(pool.tokenB.symbol)
    THEN [positions |-> <<>>, trace |-> <<>>]
    ELSE IF f[i].pool = THROWS \/ f[i].pool = ZeroAddress
    THEN [positions |-> <<>>, trace |-> <<Read("manager", "getAerodromePools")>>]
    ELSE LET trace == <<Read("manager", "getAerodromePools"), Read("erc20", "balanceOf")>>
         IN  IF f[i].balance = READFAIL \/ f[i].balance = Big0
             THEN [positions |-> <<>>, trace |-> trace]
             ELSE [positions |-> << [lpToken |-> f[i].pool, balance |-> f[i].balance,
                                     poolName |-> pool.name,
                                     token0 |-> pool.tokenA.symbol,
                                     token1 |-> pool.tokenB.symbol,
                                     error |-> FALSE] >>,
                   trace |-> trace]

RECURSIVE FallbackWalk(_, _)
FallbackWalk(i, f) ==
    IF i > Len(POOLS) THEN [positions |-> <<>>, trace |-> <<>>]
    ELSE LET here == FallbackStep(i, f)
             rest == FallbackWalk(i + 1, f)
         IN  [positions |-> here.positions \o rest.positions,
              trace |-> here.trace \o rest.trace]

\* a getLPPositions() that goes on to the catalog pools after the
\* enumeration answered
GetLPPositionsMixing(s, primary, fallback) ==
    LET first == <<Read("manager", "getAerodromeLPPositions")>>
        own   == PrimaryWalk(primary.positions)
        walk  == FallbackWalk(1, fallback)
    IN  Result("getLPPositions", s, TRUE, "", first \o own.trace \o walk.trace,
               own.positions \o walk.positions)

\* getLPPositions(): primary is [threw, positions], what the manager
\* enumerates; fallback is used when the enumeration throws
GetLPPositionsResult(s, primary, fallback) ==
    IF NoManagerContract(s)
    THEN Result("getLPPositions", s, FALSE, MsgNotInitialized, <<>>, <<>>)
    ELSE LET first == <<Read("manager", "getAerodromeLPPositions")>>
             walk  == IF primary.threw THEN FallbackWalk(1, fallback)
                      ELSE PrimaryWalk(primary.positions)
         IN  Result("getLPPositions", s, TRUE, "", first \o walk.trace, walk.positions)

\* LP token addresses as the chain spells them; "0xLP1" and "0xlp1" are two
\* spellings of one address
LPTokens == {"0xLP1", "0xlp1", "0xLP2"}
\* lpToken.toLowerCase()
Lower(a) == IF a = "0xLP1" THEN "0xlp1" ELSE IF a = "0xLP2" THEN "0xlp2" ELSE a

CommonTokenPairs == <<
    <<"USDC", "WETH">>, <<"USDC", "AERO">>, <<"WETH", "AERO">>, <<"WETH", "VIRTUAL">>,
    <<"USDC", "VIRTUAL">>, <<"AERO", "VIRTUAL">>, <<"WETH", "TN100x">>, <<"WETH", "VEIL">> >>

\* a pair lookup that asks the manager only
GetPoolAddressManagerOnly(i, q) ==
    IF q[i].mgr \notin {THROWS, ZeroAddress}
    THEN [address |-> q[i].mgr, trace |-> <<Read("manager", "getAerodromePair")>>]
    ELSE [address |-> Null, trace |-> <<Read("manager", "getAerodromePair")>>]

\* getPoolAddress(token0, token1, stable) for common pair i: q[i] holds the
\* answers of manager.getAerodromePair (mgr) and of the factory's getPair (fac)
GetPoolAddress(i, q) ==
    LET pair == CommonTokenPairs[i] IN
    IF ~HasAddress(pair[1]) \/ ~HasAddress(pair[2])
    THEN [address |-> Null, trace |-> <<>>]
    ELSE IF q[i].mgr \notin {THROWS, ZeroAddress}
    THEN [address |-> q[i].mgr, trace |-> <<Read("manager", "getAerodromePair")>>]
    ELSE LET trace == <<Read("manager", "getAerodromePair"), Read("aerodromeFactory", "getPair")>>
         IN  IF q[i].fac \notin {THROWS, ZeroAddress}
             THEN [address |-> q[i].fac, trace |-> trace]
             ELSE [address |-> Null, trace |-> trace]

\* a duplicate check that never finds a duplicate
AlreadyProcessedNever(processedLpTokens, lpToken) == FALSE

\* processedLpTokens.has(lpToken.toLowerCase())
AlreadyProcessed(processedLpTokens, lpToken) == Lower(lpToken) \in processedLpTokens

\* a total that takes no reward in
AddRewardNever(totalRewards, earned) == totalRewards

\* totalRewards += earned
AddReward(totalRewards, earned) == BigPlus(totalRewards, earned)

\* one candidate LP token of getStakedPositions: the duplicate check, the
\* gauge lookup through the voter handle, the staked balance and the earned
\* rewards.  g[contract] holds the chain's answers for that LP token.
StakedStep(acc, lpToken, poolName, token0, token1, g, voter) ==
    IF AlreadyProcessed(acc.processed, lpToken) THEN acc
    ELSE LET seen == [acc EXCEPT !.processed = @ \cup {Lower(lpToken)}]
             info == g[Lower(lpToken)]
         IN  IF voter = Null THEN seen
             ELSE LET t1 == [seen EXCEPT !.trace = Append(@, Read("voter", "gauges"))] IN
             IF info.gauge \in {THROWS, ZeroAddress} THEN t1
             ELSE LET t2 == [t1 EXCEPT !.trace = Append(@, Read("gauge", "balanceOf"))] IN
             IF info.staked = READFAIL \/ info.staked = Big0 THEN t2
             ELSE LET earned == IF info.earned = READFAIL THEN Big0 ELSE info.earned
                  IN  [t2 EXCEPT
                         !.trace = Append(@, Read("gauge", "earned")),
                         !.totalRewards = AddReward(@, earned),
                         !.gauges = Append(@, info.gauge),
                         !.stakedPositions = Append(@,
                             [lpToken |-> lpToken, gauge |-> info.gauge,
                              stakedBalance |-> info.staked, earned |-> earned,
                              poolName |-> poolName,
                              token0 |-> token0, token1 |-> token1])]

\* the loop over the LP positions found in the manager
RECURSIVE StakedFromPositions(_, _, _, _)
StakedFromPositions(acc, positions, g, voter) ==
    IF positions = <<>> THEN acc
    ELSE LET p == Head(positions)
         IN  StakedFromPositions(
                 StakedStep(acc, p.lpToken, p.poolName, p.token0, p.token1, g, voter),
                 Tail(positions), g, voter)

\* the loop over commonTokenPairs
RECURSIVE StakedFromPairs(_, _, _, _, _)
StakedFromPairs(acc, i, q, g, voter) ==
    IF i > Len(CommonTokenPairs) THEN acc
    ELSE LET found  == GetPoolAddress(i, q)
             looked == [acc EXCEPT !.trace = @ \o found.trace]
             pair   == CommonTokenPairs[i]
         IN  StakedFromPairs(
                 IF found.address = Null THEN looked
                 ELSE StakedStep(looked, found.address, pair[1] \o "-" \o pair[2],
                                 pair[1], pair[2], g, voter),
                 i + 1, q, g, voter)

\* the voter handle getStakedPositions works with: the session's, or the
\* one it creates itself when the session has none and the voter ABI loads
VoterFor(s) ==
    IF sess[s].voterContract # Null THEN sess[s].voterContract
    ELSE IF abis.voter THEN "voterHandle" ELSE Null

\* getStakedPositions()
GetStakedPositionsResult(s, primary, fallback, q, g) ==
    IF NoManagerContract(s)
    THEN Result("getStakedPositions", s, FALSE, MsgNotInitialized, <<>>, <<>>)
    ELSE LET voter == VoterFor(s)
             lp    == GetLPPositionsResult(s, primary, fallback)
             start == [processed |-> {}, stakedPositions |-> <<>>, gauges |-> <<>>,
                       totalRewards |-> Big0, trace |-> lp.trace]
             acc   == StakedFromPairs(StakedFromPositions(start, lp.out, g, voter),
                                      1, q, g, voter)
         IN  Result("getStakedPositions", s, TRUE, "", acc.trace,
                    [positions |-> lp.out, stakedPositions |-> acc.stakedPositions,
                     gauges |-> acc.gauges, totalRewards |-> acc.totalRewards,
                     voterContract |-> voter,
                     pairAnswers |-> q, gaugeAnswers |-> g])

----------------------------------------------------------------------------
(* Numeric coercion *)

\* A text is the sequence of its characters.  A signed integer is
\* [neg, abs], abs a bigint; a call that throws gives Throws.
Integer(neg, abs) == [threw |-> FALSE, neg |-> neg /\ abs # Big0, abs |-> abs]
Throws == [threw |-> TRUE]

DecDigits == <<"0", "1", "2", "3", "4", "5", "6", "7", "8", "9">>
HexDigits == DecDigits \o <<"a", "b", "c", "d", "e", "f">>
IsDigit(c) == \E i \in 1..Len(DecDigits) : DecDigits[i] = c
IsHexDigit(c) == IsDigit(c) \/ c \in {"a", "b", "c", "d", "e", "f", "A", "B", "C", "D", "E", "F"}
DigitValue(c) ==
    CASE c \in {"a", "A"} -> 10 [] c \in {"b", "B"} -> 11 [] c \in {"c", "C"} -> 12
      [] c \in {"d", "D"} -> 13 [] c \in {"e", "E"} -> 14 [] c \in {"f", "F"} -> 15
      [] OTHER -> (CHOOSE i \in 1..Len(DecDigits) : DecDigits[i] = c) - 1

\* a small natural number from its digits in the given radix
RECURSIVE NatValue(_, _, _)
NatValue(acc, chars, radix) ==
    IF chars = <<>> THEN acc
    ELSE NatValue(acc * radix + DigitValue(Head(chars)), Tail(chars), radix)

RECURSIVE RadixPow(_, _)
RadixPow(radix, k) == IF k = 0 THEN 1 ELSE radix * RadixPow(radix, k - 1)

\* digits taken in one step: 4 decimal digits or 3 hex digits
Chunk(radix) == IF radix = 10 THEN 4 ELSE 3

\* the value of a run of digits in the given radix (10 or 16), a chunk of
\* digits at a time.  Here and below an intermediate value is drawn from a
\* singleton set, which makes TLC compute it once, before the next step.
RECURSIVE DigitsValue(_, _, _)
DigitsValue(acc, chars, radix) ==
    IF chars = <<>> THEN acc
    ELSE LET k == IF Len(chars) < Chunk(radix) THEN Len(chars) ELSE Chunk(radix)
         IN  CHOOSE v \in {DigitsValue(next, rest, radix) :
                              next \in {BigPlus(BigMul(acc, RadixPow(radix, k)),
                                                BigOfNat(NatValue(0, SubSeq(chars, 1, k),
                                                                  radix)))},
                              rest \in {SubSeq(chars, k + 1, Len(chars))}} : TRUE

\* the index after the run of decimal digits that starts at i
RECURSIVE DigitsEnd(_, _)
DigitsEnd(chars, i) ==
    IF i > Len(chars) \/ ~IsDigit(chars[i]) THEN i ELSE DigitsEnd(chars, i + 1)

\* BigInt(text): the empty text is 0n, "0x" and hex digits a hex literal, an
\* optionally signed run of decimal digits a decimal literal, and anything
\* else a SyntaxError.  (No text met here carries white space or a 0b/0o
\* prefix.)
StringToBigInt(chars) ==
    IF chars = <<>> THEN Integer(FALSE, Big0)
    ELSE IF Len(chars) >= 2 /\ chars[1] = "0" /\ chars[2] \in {"x", "X"}
    THEN IF Len(chars) > 2 /\ \A i \in 3..Len(chars) : IsHexDigit(chars[i])
         THEN Integer(FALSE, DigitsValue(Big0, SubSeq(chars, 3, Len(chars)), 16))
         ELSE Throws
    ELSE LET digits == IF chars[1] \in {"-", "+"} THEN Tail(chars) ELSE chars
         IN  IF digits # <<>> /\ \A i \in 1..Len(digits) : IsDigit(digits[i])
             THEN Integer(chars[1] = "-", DigitsValue(Big0, digits, 10))
             ELSE Throws

\* value.startsWith('0x')
StartsWith0x(chars) == Len(chars) >= 2 /\ chars[1] = "0" /\ chars[2] = "x"

\* value.replace(/\..*$/, ''): the text up to its first "."
StripFraction(chars) ==
    IF \E i \in 1..Len(chars) : chars[i] = "."
    THEN SubSeq(chars, 1, (CHOOSE i \in 1..Len(chars) :
                              /\ chars[i] = "."
                              /\ \A j \in 1..(i - 1) : chars[j] # ".") - 1)
    ELSE chars

\* parseFloat(text): the longest prefix that is a decimal literal (sign,
\* digits, fraction, exponent), as [neg, digits, scale] standing for
\* digits / 10^scale before rounding, or NaN.  "Infinity" is read as NaN:
\* the caller treats both the same.
ParseFloatChars(chars) ==
    LET n       == Len(chars)
        s0      == IF n > 0 /\ chars[1] \in {"-", "+"} THEN 2 ELSE 1
        i1      == DigitsEnd(chars, s0)
        hasDot  == i1 <= n /\ chars[i1] = "."
        i2      == IF hasDot THEN DigitsEnd(chars, i1 + 1) ELSE i1
        int     == SubSeq(chars, s0, i1 - 1)
        frac    == IF hasDot THEN SubSeq(chars, i1 + 1, i2 - 1) ELSE <<>>
        hasE    == i2 <= n /\ chars[i2] \in {"e", "E"}
        e0      == IF hasE /\ i2 + 1 <= n /\ chars[i2 + 1] \in {"-", "+"} THEN i2 + 2 ELSE i2 + 1
        e1      == IF hasE THEN DigitsEnd(chars, e0) ELSE e0
        expOk   == hasE /\ e1 > e0
        expAbs  == IF expOk THEN NatValue(0, SubSeq(chars, e0, e1 - 1), 10) ELSE 0
        exp     == IF expOk /\ chars[i2 + 1] = "-" THEN 0 - expAbs ELSE expAbs
    IN  IF int = <<>> /\ frac = <<>> THEN [nan |-> TRUE]
        ELSE [nan |-> FALSE, neg |-> n > 0 /\ chars[1] = "-",
              digits |-> DigitsValue(Big0, int \o frac, 10), scale |-> Len(frac) - exp]

\* 2^53 = 9007199254740992: up to it every integer is a double
Two53 == <<992, 5474, 1992, 9007>>

\* a * 2^k
RECURSIVE Doubled(_, _)
Doubled(a, k) ==
    IF k = 0 THEN a
    ELSE CHOOSE v \in {Doubled(next, IF k >= 12 THEN k - 12 ELSE k - 1) :
                          next \in {BigMul(a, IF k >= 12 THEN 4096 ELSE 2)}} : TRUE

\* the double nearest to the integer n (ties to even).  q = floor(n / 2^k),
\* reached 12 bits at a time and then bit by bit; above marks a non-zero
\* part of the value below the integer n.
RECURSIVE RoundFrom(_, _, _, _)
RoundFrom(n, q, k, above) ==
    IF ~BigLeq(Two53, q)
    THEN LET lower == Doubled(q, k)
             upper == Doubled(BigPlus(q, Big1), k)
             mid   == BigPlus(lower, Doubled(Big1, k - 1))
         IN  IF k = 0 THEN n
             ELSE IF BigLess(n, mid) THEN lower
             ELSE IF BigLess(mid, n) \/ above THEN upper
             ELSE IF BigDivRem(q, 2)[2] = 0 THEN lower ELSE upper
    ELSE CHOOSE v \in {RoundFrom(n, BigDiv(q, IF far THEN 4096 ELSE 2),
                                 IF far THEN k + 12 ELSE k + 1, above) :
                          far \in {BigLeq(Doubled(Two53, 12), q)}} : TRUE

RoundToDouble(n, above) == RoundFrom(n, n, 0, above)

\* <<a / 10^k truncated, whether something was cut off>>
RECURSIVE DropDigits(_, _, _)
DropDigits(a, k, cut) ==
    IF k = 0 THEN <<a, cut>>
    ELSE CHOOSE v \in {DropDigits(BigNorm(d[1]), k - 1, cut \/ d[2] # 0) :
                          d \in {BigDivRem(a, 10)}} : TRUE

RECURSIVE TimesPow10(_, _)
TimesPow10(a, k) ==
    IF k = 0 THEN a
    ELSE CHOOSE v \in {TimesPow10(next, k - 1) : next \in {BigMul(a, 10)}} : TRUE

\* BigInt(Math.trunc(floatVal)) of the double parseFloat gives for f.  The
\* fraction of a value below 2^53 is cut off as it stands: exact for the
\* fractions of up to 4 digits and the integer parts below 2^39 met here.
TruncToBigInt(f) ==
    IF f.scale <= 0
    THEN Integer(f.neg, RoundToDouble(TimesPow10(f.digits, 0 - f.scale), FALSE))
    ELSE LET parts == DropDigits(f.digits, f.scale, FALSE)
         IN  Integer(f.neg, IF BigLess(parts[1], Two53) THEN parts[1]
                        ELSE RoundToDouble(parts[1], parts[2]))

\* the body of the try block for a decimal text
DecimalToBigInt(chars) ==
    LET floatVal == ParseFloatChars(chars)
    IN  IF ~floatVal.nan THEN TruncToBigInt(floatVal)
        ELSE StringToBigInt(StripFraction(chars))

\* try { ... } catch { return BigInt(0) }
Caught(result) == IF result.threw THEN Integer(FALSE, Big0) ELSE result

\* toBigInt(value).  A value is [type, ...]: undefined and null; a bigint
\* [neg, abs]; a number [nan, infinite, neg, int, frac] (frac: it has a
\* fractional part); a string [chars]; an object with the members toBigInt
\* ([absent], [throws] or [returns]), _hex and toString ([absent] or
\* [chars]); any other type.
toBigInt(value) ==
    CASE value.type \in {"undefined", "null"} -> Integer(FALSE, Big0)
      [] value.type = "bigint" -> Integer(value.neg, value.abs)
      [] value.type = "number" ->
            IF value.nan \/ value.infinite THEN Throws
            ELSE IF value.neg /\ value.frac THEN Integer(TRUE, BigPlus(value.int, Big1))
            ELSE Integer(value.neg, value.int)
      [] value.type = "string" ->
            IF StartsWith0x(value.chars) THEN StringToBigInt(value.chars)
            ELSE Caught(DecimalToBigInt(value.chars))
      [] value.type = "object" ->
            IF "returns" \in DOMAIN value.toBigInt THEN value.toBigInt.returns
            ELSE IF "throws" \in DOMAIN value.toBigInt THEN Throws
            ELSE IF "chars" \in DOMAIN value.hex /\ value.hex.chars # <<>>
            THEN StringToBigInt(value.hex.chars)
            ELSE IF "chars" \in DOMAIN value.toString
            THEN Caught(IF StartsWith0x(value.toString.chars)
                        THEN StringToBigInt(value.toString.chars)
                        ELSE DecimalToBigInt(value.toString.chars))
            ELSE Integer(FALSE, Big0)
      [] OTHER -> Integer(FALSE, Big0)

\* the digits of m < radix^Chunk(radix), with leading zeros
ChunkDigits(m, radix) ==
    [i \in 1..Chunk(radix) |->
        HexDigits[((m \div RadixPow(radix, Chunk(radix) - i)) % radix) + 1]]

\* the digits of a non-negative integer, a chunk at a time, with leading
\* zeros up to a whole chunk
RECURSIVE DigitsOf(_, _)
DigitsOf(n, radix) ==
    IF n = Big0 THEN <<>>
    ELSE CHOOSE v \in {DigitsOf(BigNorm(d[1]), radix) \o ChunkDigits(d[2], radix) :
                          d \in {BigDivRem(n, RadixPow(radix, Chunk(radix)))}} : TRUE

\* n.toString(radix) of a non-negative integer
toStringRadix(n, radix) ==
    IF n = Big0 THEN <<"0">>
    ELSE LET digits == DigitsOf(n, radix)
             first  == CHOOSE i \in 1..Len(digits) :
                          /\ digits[i] # "0"
                          /\ \A j \in 1..(i - 1) : digits[j] = "0"
         IN  SubSeq(digits, first, Len(digits))

DecimalText(n) == toStringRadix(n, 10)
HexText(n) == <<"0", "x">> \o toStringRadix(n, 16)

\* unsigned integers below 2^256:
\*   0, 1, 255, 65536, 10^6, 2^31, 10^15 + 1, 2^53 - 1, 2^53, 2^53 + 1,
\*   2^53 + 2, 2^53 + 3, 10^18, 2^64 - 1, 10^20 + 1, 2^128, 2^255 + 1,
\*   2^256 - 1
SampleIntegers ==
    { <<>>,
      <<1>>,
      <<255>>,
      <<5536, 6>>,
      <<0, 100>>,
      <<3648, 4748, 21>>,
      <<1, 0, 0, 1000>>,
      <<991, 5474, 1992, 9007>>,
      <<992, 5474, 1992, 9007>>,
      <<993, 5474, 1992, 9007>>,
      <<994, 5474, 1992, 9007>>,
      <<995, 5474, 1992, 9007>>,
      <<0, 0, 0, 0, 100>>,
      <<1615, 955, 737, 6744, 1844>>,
      <<1, 0, 0, 0, 0, 1>>,
      <<1456, 6821, 4317, 4607, 6337, 4634, 938, 6692, 2823, 340>>,
      <<9969, 6481, 9565, 2003, 2879, 197, 282, 3282, 9923, 6634, 5392, 3439, 2504, 8549, 7117, 8097, 1865, 446, 7896, 5>>,
      <<9935, 2963, 9131, 4007, 5758, 394, 564, 6564, 9846, 3269, 785, 6879, 5008, 7098, 4235, 6195, 3731, 892, 5792, 11>> }

Absent == [absent |-> TRUE]
Chars(text) == [chars |-> text]
String(text) == [type |-> "string", chars |-> text]
Boxed(toBigIntMember, hexMember, toStringMember) ==
    [type |-> "object", toBigInt |-> toBigIntMember, hex |-> hexMember,
     toString |-> toStringMember]

\* the ways an unsigned integer n reaches toBigInt: a native bigint, a
\* 0x-prefixed hex string, a decimal string, and a boxed number read
\* through toBigInt(), through _hex, or through toString()
Presentations(n) ==
    [bigint  |-> [type |-> "bigint", neg |-> FALSE, abs |-> n],
     hex     |-> String(HexText(n)),
     decimal |-> String(DecimalText(n)),
     boxedToBigInt |-> Boxed([returns |-> Integer(FALSE, n)], Chars(HexText(n)),
                             Chars(DecimalText(n))),
     boxedHex      |-> Boxed(Absent, Chars(HexText(n)), Chars(DecimalText(n))),
     boxedToString |-> Boxed(Absent, Absent, Chars(DecimalText(n)))]

Number(neg, int, frac) ==
    [type |-> "number", nan |-> FALSE, infinite |-> FALSE, neg |-> neg, int |-> int,
     frac |-> frac]

\* other values: undefined, null, true; the numbers 42, 42.7, -1.5, NaN
\* and Infinity; texts that are no integer literal; boxed values whose
\* members throw or give no number
OtherValues ==
    { [type |-> "undefined"], [type |-> "null"], [type |-> "boolean"],
      Number(FALSE, <<42>>, FALSE), Number(FALSE, <<42>>, TRUE), Number(TRUE, Big1, TRUE),
      [type |-> "number", nan |-> TRUE, infinite |-> FALSE, neg |-> FALSE, int |-> Big0,
       frac |-> FALSE],
      [type |-> "number", nan |-> FALSE, infinite |-> TRUE, neg |-> FALSE, int |-> Big0,
       frac |-> FALSE],
      String(<<>>), String(<<"a", "b", "c">>), String(<<"0", "x">>),
      String(<<"0", "x", "Z", "Z">>), String(<<"0", "X", "1", "F">>),
      String(<<"1", "2", "a", "b", "c">>), String(<<"4", "2", ".", "9">>),
      String(<<"1", "e", "3">>), String(<<"1", ".", "5", "e", "3">>),
      String(<<"-", "5">>), String(<<".", "5">>), String(<<"1", ".", "2", ".", "3">>),
      String(<<"a", ".", "5">>),
      Boxed([throws |-> TRUE], Absent, Absent),
      Boxed(Absent, Chars(<<"0", "x", "Z", "Z">>), Chars(<<"7">>)),
      Boxed(Absent, Chars(<<>>), Chars(<<"7">>)),
      Boxed(Absent, Absent, Chars(<<"a", "b", "c">>)),
      Boxed(Absent, Absent, Chars(<<"0", "x", "Z", "Z">>)),
      Boxed(Absent, Absent, Absent) }

----------------------------------------------------------------------------
(* Rewards, fees and the manager list *)

\* 10^18 - 55: the least raw amount whose formatEther text parseFloat reads
\* as a number >= 1.0 (0.999999999999999945 rounds to the double 1.0)
\* parseFloat(ethers.formatEther(position.earned || "0")) >= 1.0
EarnsAtLeastOne(earned) == BigLeq(<<9945, 9999, 9999, 9999, 99>>, earned)

\* a claim loop that a failed claim ends
RECURSIVE ClaimLoopEndedByFailure(_, _, _)
ClaimLoopEndedByFailure(s, positions, c) ==
    IF positions = <<>>
    THEN [results |-> <<>>, attempted |-> <<>>, outcomes |-> <<>>, trace |-> <<>>]
    ELSE LET p    == Head(positions)
             ans  == c[Lower(p.lpToken)]
             r    == ClaimRewardsResult(s, p.lpToken, p.poolName, p.gauge, ans.earned, ans.failAt)
             rest == ClaimLoopEndedByFailure(s, Tail(positions), c)
         IN  IF r.success
             THEN [results |-> <<r.out>> \o rest.results,
                   attempted |-> <<p.lpToken>> \o rest.attempted,
                   outcomes |-> <<TRUE>> \o rest.outcomes,
                   trace |-> r.trace \o rest.trace]
             ELSE [results |-> <<>>, attempted |-> <<p.lpToken>>, outcomes |-> <<FALSE>>,
                   trace |-> r.trace]

\* the claim loop of claimAllRewards over the claimable positions; c[contract]
\* holds the answers claimRewards gets for that LP token.  attempted lists
\* the LP tokens claimRewards was called for, outcomes what each call
\* returned as success.
RECURSIVE ClaimLoop(_, _, _)
ClaimLoop(s, positions, c) ==
    IF positions = <<>>
    THEN [results |-> <<>>, attempted |-> <<>>, outcomes |-> <<>>, trace |-> <<>>]
    ELSE LET p    == Head(positions)
             ans  == c[Lower(p.lpToken)]
             r    == ClaimRewardsResult(s, p.lpToken, p.poolName, p.gauge, ans.earned, ans.failAt)
             rest == ClaimLoop(s, Tail(positions), c)
         IN  [results |-> (IF r.success THEN <<r.out>> ELSE <<>>) \o rest.results,
              attempted |-> <<p.lpToken>> \o rest.attempted,
              outcomes |-> <<r.success>> \o rest.outcomes,
              trace |-> r.trace \o rest.trace]

\* claimAllRewards(): sp is what its call of getStakedPositions() returns;
\* out.stakedPositions are the staked positions it went through
ClaimAllRewardsResult(s, sp, c) ==
    IF NoManagerContract(s)
    THEN Result("claimAllRewards", s, FALSE, MsgNotInitialized, <<>>, <<>>)
    ELSE LET staked == sp.out.stakedPositions
             claimable == SelectSeq(staked, LAMBDA p : EarnsAtLeastOne(p.earned))
             loop == ClaimLoop(s, claimable, c)
             out == [results |-> loop.results, attempted |-> loop.attempted,
                     outcomes |-> loop.outcomes, stakedPositions |-> staked,
                     voterContract |-> sp.out.voterContract]
             none == [results |-> <<>>, attempted |-> <<>>, outcomes |-> <<>>,
                      stakedPositions |-> staked,
                      voterContract |-> sp.out.voterContract]
         IN  IF ~sp.success
             THEN Result("claimAllRewards", s, FALSE, "Failed to retrieve staked positions",
                         sp.trace, none)
             ELSE IF staked = <<>>
             THEN Result("claimAllRewards", s, FALSE, "No staked positions found", sp.trace, none)
             ELSE IF claimable = <<>>
             THEN Result("claimAllRewards", s, FALSE,
                         "No positions have rewards above the 1 AERO minimum threshold",
                         sp.trace, none)
             ELSE IF loop.results # <<>>
             THEN Result("claimAllRewards", s, TRUE, "", sp.trace \o loop.trace, out)
             ELSE Result("claimAllRewards", s, FALSE, "Failed to claim any rewards",
                         sp.trace \o loop.trace, out)

\* const maxRetries = 3 of getAerodromePair
PairMaxRetries == 3

\* getAerodromePair(token0, token1, stable): throws is the number of
\* attempts that throw, answer what the first attempt that does not gives.
\* It returns an address or null; success stands for "not null".
GetAerodromePairResult(s, throws, answer) ==
    IF NoManagerContract(s)
    THEN Result("getAerodromePair", s, FALSE, Null, <<>>, Null)
    ELSE LET attempts == IF throws >= PairMaxRetries THEN PairMaxRetries ELSE throws + 1
             trace == [i \in 1..attempts |-> Read("manager", "getAerodromePair")]
             found == IF throws >= PairMaxRetries \/ answer = ZeroAddress THEN Null ELSE answer
         IN  Result("getAerodromePair", s, found # Null, Null, trace, found)


\* a bigint as ethers decodes a uint256
Uint(v) == [type |-> "bigint", neg |-> FALSE, abs |-> v]

\* a test of the primary result that never passes
WellFormedNever(result) == FALSE

\* result && typeof result.lpBalance !== 'undefined' && ... : the view's
\* result carries lpBalance, claimable0Amount and claimable1Amount
WellFormed(result) == result.kind = "ok"

\* { lpBalance: this.toBigInt(lpBalance), claimable0: ..., claimable1: ... };
\* threw when one of the coercions throws
Normalized(amounts) ==
    CHOOSE n \in {[threw |-> \E i \in 1..3 : c[i].threw,
                   lpBalance |-> c[1], claimable0 |-> c[2], claimable1 |-> c[3]] :
                      c \in {[i \in 1..3 |->
                                toBigInt(<<amounts.lpBalance, amounts.claimable0Amount,
                                           amounts.claimable1Amount>>[i])]}} : TRUE

\* getClaimableFees(tokenA, tokenB, stable): primary is what the manager's
\* getClaimableFees view gives: [kind ("ok", "throws" or "malformed"), and
\* the three amounts];
\* the fallback asks for the pair and then the pool contract itself.  out
\* tells the tier that answered and what the primary call gave.
GetClaimableFeesResult(s, primary, throws, answer, abiHas, poolReads, failAt) ==
    IF NoManagerContract(s)
    THEN Result("getClaimableFees", s, FALSE, MsgNotInitialized, <<>>, <<>>)
    ELSE \* the coercions of the two answers, used where the code reaches them
         LET coerced == CHOOSE n \in {[from \in {"manager", "pool"} |->
                                         Normalized(IF from = "manager" THEN primary
                                                    ELSE poolReads)]} : TRUE
             first == <<Read("manager", "getClaimableFees")>>
             none  == [tier |-> "none", primary |-> primary.kind]
             fees(tier, n) == [tier |-> tier, primary |-> primary.kind,
                               lpBalance |-> n.lpBalance, claimable0 |-> n.claimable0,
                               claimable1 |-> n.claimable1]
         IN
    IF WellFormed(primary) /\ ~coerced["manager"].threw
    THEN Result("getClaimableFees", s, TRUE, "", first, fees("manager", coerced["manager"]))
    ELSE LET pair == GetAerodromePairResult(s, throws, answer)
             t2   == first \o pair.trace
         IN
    IF pair.out = Null
    THEN Result("getClaimableFees", s, FALSE, "Pool not found for fallback fee check.", t2, none)
    ELSE IF sess[s].managerAddress \in {Null, ""}
    THEN Result("getClaimableFees", s, FALSE, "Manager address not known", t2, none)
    ELSE IF ~abiHas
    THEN Result("getClaimableFees", s, TRUE, "Pool ABI missing claimable functions.", t2,
                fees("pool", [lpBalance |-> Integer(FALSE, Big0),
                              claimable0 |-> Integer(FALSE, Big0),
                              claimable1 |-> Integer(FALSE, Big0)]))
    ELSE LET plan == <<Read("pool", "claimable0"), Read("pool", "claimable1"),
                       Read("erc20", "balanceOf")>>
         IN  IF Threw(plan, failAt)
             THEN Result("getClaimableFees", s, FALSE, "Failed to query pool contract",
                         t2 \o Executed(plan, failAt), none)
             ELSE IF coerced["pool"].threw
             THEN Result("getClaimableFees", s, FALSE, "Fee check setup failed", t2 \o plan,
                         none)
             ELSE Result("getClaimableFees", s, TRUE, "", t2 \o plan,
                         fees("pool", coerced["pool"]))

\* claimFees(tokenA, tokenB, stable): amounts are those of the FeesClaimed
\* event, [found, amount0, amount1]
ClaimFeesResult(s, failAt, amounts) ==
    IF NoManagerContract(s)
    THEN Result("claimFees", s, FALSE, MsgNotInitialized, <<>>, <<>>)
    ELSE Finish("claimFees", s, <<>>,
                <<Read("provider", "getFeeData"), Tx("manager", "claimFees"),
                  Wait("manager", "claimFees")>>,
                failAt,
                IF ~amounts.found
                THEN [amount0Received |-> Big0, amount1Received |-> Big0]
                ELSE [amount0Received |-> amounts.amount0, amount1Received |-> amounts.amount1])

\* isManager(managerAddress): valid is ethers.isAddress(managerAddress),
\* answer what the contract says ("true", "false" or THROWS)
IsManagerResult(s, valid, answer) ==
    IF NoManagerContract(s)
    THEN Result("isManager", s, FALSE, "Manager contract not initialized", <<>>, <<>>)
    ELSE IF ~valid
    THEN Result("isManager", s, FALSE, "Invalid manager address", <<>>, <<>>)
    ELSE IF answer = THROWS
    THEN Result("isManager", s, FALSE, MsgThrown, <<Read("manager", "isManager")>>,
                [isManager |-> FALSE])
    ELSE Result("isManager", s, TRUE, "", <<Read("manager", "isManager")>>,
                [isManager |-> answer = "true"])

\* addManager(managerAddress) when add, removeManager(managerAddress) when
\* not: the membership check, the gas options and the transaction, which is
\* returned without being awaited
ChangeManagerResult(s, add, valid, answer, failAt) ==
    LET op == IF add THEN "addManager" ELSE "removeManager"
        fn == op
        check == IsManagerResult(s, valid, answer)
    IN
    IF NoManagerContract(s)
    THEN Result(op, s, FALSE, "Manager contract not initialized", <<>>, <<>>)
    ELSE IF ~valid
    THEN Result(op, s, FALSE, "Invalid manager address", <<>>, <<>>)
    ELSE IF check.success /\ check.out.isManager = add
    THEN Result(op, s, TRUE,
                IF add THEN "Address is already a manager" ELSE "Address is not a manager",
                check.trace, <<>>)
    ELSE LET gas  == <<Read("provider", "getFeeData")>>
             plan == <<Tx("manager", fn)>>
         IN  Finish(op, s, check.trace \o gas, plan, failAt, <<>>)

----------------------------------------------------------------------------
(* createManager() *)

\* let maxRetries = 2
CreateMaxRetries == 2


\* outcomes of one submission attempt of factory.createManager: the
\* submission throws; the confirmation throws; the 60 s timer wins and the
\* transaction stays pending; the timer wins and the transaction is mined
\* afterwards; the receipt arrives
AttemptOutcomes == {"submitFail", "waitFail", "timeout", "timeoutMined", "mined"}

\* the retry loop: outcomes[k] is what attempt k meets while the user has no
\* manager on chain; once the user has one, the factory rejects every
\* further submission
\* met lists what each attempt met, existed whether the user had a manager
\* on chain when the attempt was submitted
RECURSIVE CreateAttempts(_, _, _)
CreateAttempts(outcomes, retryCount, chain) ==
    IF retryCount > CreateMaxRetries
    THEN [receipt |-> FALSE, chain |-> chain, trace |-> <<>>, tries |-> retryCount,
          met |-> <<>>, existed |-> <<>>]
    ELSE LET o == IF chain # ZeroAddress THEN "submitFail" ELSE outcomes[retryCount + 1]
             submit == <<Tx("factory", "createManager")>>
             both   == submit \o <<Wait("factory", "createManager")>>
         IN  IF o = "mined"
             THEN [receipt |-> TRUE, chain |-> ManagerAddr, trace |-> both,
                   tries |-> retryCount + 1,
                   met |-> <<o>>, existed |-> <<chain # ZeroAddress>>]
             ELSE LET rest == CreateAttempts(outcomes, retryCount + 1,
                                             IF o = "timeoutMined" THEN ManagerAddr ELSE chain)
                  IN  [rest EXCEPT !.trace = (IF o = "submitFail" THEN submit ELSE both) \o @,
                                   !.met = <<o>> \o @,
                                   !.existed = <<chain # ZeroAddress>> \o @]

\* a fee getFeeData reports as null, and a transaction option left undefined
NoFee == <<-4>>

\* transaction options that do not grow with the retries
TxOptionsFlat(gasPrice, retryCount) ==
    LET scaled(fee, multiplier) == IF fee = NoFee \/ fee = Big0 THEN NoFee
                                   ELSE BigDiv(BigMul(fee, multiplier), 10)
    IN  [maxFeePerGas |-> scaled(gasPrice.maxFeePerGas, 15),
         maxPriorityFeePerGas |-> scaled(gasPrice.maxPriorityFeePerGas, 20)]

\* txOptions of attempt retryCount: feeMultiplier = 15n + retryCount * 5n,
\* priorityMultiplier = 20n + retryCount * 10n, each fee * multiplier / 10n
\* when the fee is truthy, undefined otherwise
TxOptions(gasPrice, retryCount) ==
    LET scaled(fee, multiplier) == IF fee = NoFee \/ fee = Big0 THEN NoFee
                                   ELSE BigDiv(BigMul(fee, multiplier), 10)
    IN  [maxFeePerGas |-> scaled(gasPrice.maxFeePerGas, 15 + retryCount * 5),
         maxPriorityFeePerGas |-> scaled(gasPrice.maxPriorityFeePerGas, 20 + retryCount * 10)]

\* a test that finds no manager whatever the factory reports
ManagerExistsNever(existingManager) == FALSE

\* existingManager !== ethers.ZeroAddress
ManagerExists(existingManager) == existingManager # ZeroAddress

\* a test that never recognizes the factory's rejection
AlreadyHasManagerNever(namesCause) == FALSE

\* (error as Error).message.includes("User already has a manager")
AlreadyHasManager(namesCause) == namesCause

\* what createManager leaves in the session and on chain, with its result
Created(s, ok, msg, trace, managerAddress, managerContract, chain, out) ==
    [result |-> Result("createManager", s, ok, msg, trace, out),
     managerAddress |-> managerAddress, managerContract |-> managerContract,
     chain |-> chain]

\* this.managerAddress = m; this.managerContract = new ethers.Contract(m, ...):
\* the address is assigned before the constructor can throw
Installed(s, trace, m, out) ==
    IF abis.manager = "ok"
    THEN Created(s, TRUE, "", trace, m, m, m, out)
    ELSE Created(s, FALSE, MsgThrown, trace, m, sess[s].managerContract, m, out)

\* the "Set Aerodrome factory" block: every failure in it is swallowed
SetFactoryTrace(r, failAt) ==
    <<Read("manager", "aerodromeFactory")>>
    \o (IF FactoryPointerUnset(r)
        THEN Executed(<<Tx("manager", "setAerodromeFactory"),
                        Wait("manager", "setAerodromeFactory")>>, failAt)
        ELSE <<>>)

\* createManager(): addrOk, lookup (a getUserManager read answers or
\* throws), gasPrice (what getFeeData answers, or [threw |-> TRUE]), the
\* attempt outcomes, whether the error of a rejected submission names its
\* cause, whether the receipt carries the ManagerCreated event, and the
\* factory pointer block.  Past the retry loop out tells how it went: the
\* number of attempts (tries), what each met, whether a manager existed
\* when it was submitted, the fee data read and the fee options each was
\* submitted with.
CreateManagerResult(s, addrOk, lookupOk, gasPrice, outcomes, namesCause, eventFound, r, failAt) ==
    LET keepAddr == sess[s].managerAddress
        keepCon  == sess[s].managerContract
        r1 == <<Read("factory", "getUserManager")>>
        went(loop, managerAddress, alreadyExists) ==
            [managerAddress |-> managerAddress, alreadyExists |-> alreadyExists,
             tries |-> loop.tries, met |-> loop.met, existed |-> loop.existed,
             gasPrice |-> gasPrice, namesCause |-> namesCause, lookupOk |-> lookupOk[2],
             fees |-> [k \in 1..Len(loop.met) |-> TxOptions(gasPrice, k - 1)]]
    IN
    IF sess[s].factoryContract = Null
    THEN Created(s, FALSE, "Factory contract not initialized", <<>>, keepAddr, keepCon, chainManager, <<>>)
    ELSE IF ~addrOk
    THEN Created(s, FALSE, MsgThrown, <<>>, keepAddr, keepCon, chainManager, <<>>)
    ELSE IF ~lookupOk[1]
    THEN Created(s, FALSE, "Could not check if user has an existing manager.", r1,
                 keepAddr, keepCon, chainManager, <<>>)
    ELSE IF ManagerExists(chainManager)
    THEN Installed(s, r1, chainManager,
                   [managerAddress |-> chainManager, alreadyExists |-> TRUE, tries |-> 0,
                    met |-> <<>>, existed |-> <<>>, fees |-> <<>>])
    ELSE LET r2 == r1 \o <<Read("provider", "getFeeData")>> IN
    IF "threw" \in DOMAIN gasPrice
    THEN Created(s, FALSE, MsgThrown, r2, keepAddr, keepCon, chainManager, <<>>)
    ELSE LET loop == CreateAttempts(outcomes, 0, chainManager)
             r3   == r2 \o loop.trace
             r4   == r3 \o <<Read("factory", "getUserManager")>>
         IN
    IF ~loop.receipt
    THEN \* the last error reaches the catch of the creation block; it is the
         \* factory's rejection when the last attempt was submitted while
         \* the user had a manager
         IF loop.existed[Len(loop.existed)] /\ AlreadyHasManager(namesCause)
         THEN IF lookupOk[2]
              THEN Installed(s, r4, loop.chain, went(loop, loop.chain, TRUE))
              ELSE Created(s, FALSE, "User already has a manager", r4, keepAddr, keepCon, loop.chain,
                           went(loop, Null, FALSE))
         ELSE Created(s, FALSE, MsgThrown, r3, keepAddr, keepCon, loop.chain,
                      went(loop, Null, FALSE))
    ELSE IF ~eventFound /\ ~lookupOk[2]
    THEN Created(s, FALSE, MsgThrown, r4, keepAddr, keepCon, loop.chain,
                 went(loop, Null, FALSE))
    ELSE LET r5 == IF eventFound THEN r3 ELSE r4
         IN  Installed(s, IF abis.manager = "ok" THEN r5 \o SetFactoryTrace(r, failAt) ELSE r5,
                       loop.chain, went(loop, loop.chain, FALSE))

----------------------------------------------------------------------------
(* The caller of session "S".  It is sequential: it starts an operation     *)
(* only when it holds no unread result and no initialize() of its own is   *)
(* running.  The answers of the chain are the inputs of each action.       *)

NoResult == [op |-> "none"]
NoWorkflow == [pc |-> "none"]

Ready == last.op = "none" /\ call["A"].pc = "idle" /\ wf.pc = "none"

\* the operation returns r and changes nothing in the session
Done(r) ==
    /\ last' = r
    /\ UNCHANGED <<sess, call, chainManager, addresses, abis, wf>>

\* amounts the chain may answer, and a balance read that may throw
AmountReads == {READFAIL, Big0, Big1, Big1e8, Big5e16}

\* pool names a caller may pass: two of the catalog, a pair of known
\* tokens the catalog lacks, and a name that is no pair
PoolNames == {"USDC-WETH", "USDC-AERO", "USDC-VIRTUAL", "NOPE"}

GetManagerBalances ==
    /\ Ready
    /\ \E reads \in [Symbols -> {READFAIL, Big1e8}] :
          Done(GetManagerBalancesResult("S", reads))

AddLiquidity ==
    /\ Ready
    /\ \E poolName \in PoolNames \ {"USDC-VIRTUAL"},
          readA \in AmountReads \ {Big5e16}, readB \in AmountReads \ {Big1e8},
          allowance \in {<<Big0, Big0>>, <<Big1e20, Big0>>, <<Big1e20, Big1e20>>},
          failAt \in FailPoints, eventFound \in BOOLEAN :
          Done(AddLiquidityResult("S", poolName, readA, readB, allowance[1], allowance[2],
                                  failAt, eventFound))

DepositTokens ==
    /\ Ready
    /\ \E tokenSymbol \in {"USDC", "VEIL", "DOGE"}, parsedAmount \in {Big1, Big1e8},
          allowance \in {Big0, Big1e20}, failAt \in 0..5 :
          Done(DepositTokensResult("S", tokenSymbol, parsedAmount, allowance, failAt))

WithdrawTokens ==
    /\ Ready
    /\ \E tokenSymbol \in {"USDC", "VEIL", "DOGE"}, amount \in {ALL, Big1, Big1e8},
          balanceRead \in AmountReads, failAt \in 0..2 :
          Done(WithdrawTokensResult("S", tokenSymbol, amount, balanceRead, failAt))

RemoveLiquidity ==
    /\ Ready
    /\ \E poolName \in {"USDC-WETH", "NOPE"}, percentToRemove \in {50, 100},
          poolRead \in {THROWS, ZeroAddress, "0xLP1"}, lpRead \in AmountReads,
          failAt \in 0..2 :
          Done(RemoveLiquidityResult("S", poolName, percentToRemove, poolRead, lpRead, failAt))

StakeLPTokens ==
    /\ Ready
    /\ \E amount \in {MAX, Big1, Big1e8}, gaugeRead \in {THROWS, ZeroAddress, "0xGauge1"},
          lpRead \in AmountReads, failAt \in 0..2 :
          Done(StakeLPTokensResult("S", "0xLP1", "USDC-WETH", amount, gaugeRead, lpRead, failAt))

UnstakeLPTokens ==
    /\ Ready
    /\ \E amount \in {MAX, Big1, Big1e8}, stakedRead \in AmountReads, failAt \in 0..2 :
          Done(UnstakeLPTokensResult("S", "0xLP1", "USDC-WETH", "0xGauge1", amount,
                                     stakedRead, failAt))

ClaimRewards ==
    /\ Ready
    /\ \E earnedRead \in AmountReads, failAt \in 0..2 :
          Done(ClaimRewardsResult("S", "0xLP1", "USDC-WETH", "0xGauge1", earnedRead, failAt))

GetAerodromePair ==
    /\ Ready
    /\ \E throws \in 0..PairMaxRetries, answer \in {ZeroAddress, "0xLP1"} :
          Done(GetAerodromePairResult("S", throws, answer))

GetClaimableFees ==
    /\ Ready
    /\ \E kind \in {"ok", "throws", "malformed"}, throws \in {0, PairMaxRetries},
          answer \in {ZeroAddress, "0xLP1"}, abiHas \in BOOLEAN, failAt \in 0..3 :
          LET primary   == [kind |-> kind, lpBalance |-> Uint(Big1e8),
                            claimable0Amount |-> Uint(Big1),
                            claimable1Amount |-> Uint(Big0)]
              poolReads == [lpBalance |-> Uint(Big1e8), claimable0Amount |-> Uint(Big0),
                            claimable1Amount |-> Uint(Big5e16)]
          IN  Done(GetClaimableFeesResult("S", primary, throws, answer, abiHas, poolReads,
                                          failAt))

ClaimFees ==
    /\ Ready
    /\ \E failAt \in 0..3, found \in BOOLEAN :
          Done(ClaimFeesResult("S", failAt,
                               [found |-> found, amount0 |-> Big1, amount1 |-> Big1e8]))

IsManager ==
    /\ Ready
    /\ \E valid \in BOOLEAN, answer \in {"true", "false", THROWS} :
          Done(IsManagerResult("S", valid, answer))

AddManager ==
    /\ Ready
    /\ \E valid \in BOOLEAN, answer \in {"true", "false", THROWS}, failAt \in 0..1 :
          Done(ChangeManagerResult("S", TRUE, valid, answer, failAt))

RemoveManager ==
    /\ Ready
    /\ \E valid \in BOOLEAN, answer \in {"true", "false", THROWS}, failAt \in 0..1 :
          Done(ChangeManagerResult("S", FALSE, valid, answer, failAt))

\* what manager.getAerodromeLPPositions may answer: it throws, or it lists
\* positions; "0xLP1" and "0xlp1" are one pair, the last position is one
\* whose token0() read throws
PrimaryAnswers ==
    LET P(lp, t0, t1, ok) == [lpToken |-> lp, balance |-> Big1e8,
                              token0 |-> t0, token1 |-> t1, tokensOk |-> ok]
    IN  {[threw |-> TRUE, positions |-> <<>>]} \cup
        {[threw |-> FALSE, positions |-> ps] : ps \in {
            <<>>,
            <<P("0xLP1", "USDC", "WETH", TRUE)>>,
            <<P("0xLP1", "USDC", "WETH", TRUE), P("0xlp1", "WETH", "USDC", TRUE)>>,
            <<P("0xLP1", "AERO", "USDC", TRUE), P("0xLP2", "WETH", "VEIL", TRUE)>>,
            <<P("0xLP2", "USDC", "WETH", FALSE)>> }}

\* what the chain answers for the catalog pools on the fallback path
FallbackAnswers ==
    { [i \in PoolIdx |-> [pool |-> ZeroAddress, balance |-> Big0]],
      [i \in PoolIdx |-> IF i = 1 THEN [pool |-> "0xLP1", balance |-> Big1e8]
                         ELSE IF i = 5 THEN [pool |-> "0xLP2", balance |-> READFAIL]
                         ELSE [pool |-> THROWS, balance |-> Big0]],
      [i \in PoolIdx |-> IF i = 1 THEN [pool |-> "0xLP1", balance |-> Big1]
                         ELSE IF i = 5 THEN [pool |-> "0xLP2", balance |-> Big1e8]
                         ELSE [pool |-> ZeroAddress, balance |-> Big0]] }

\* what the pair lookups answer for the common token pairs
PairAnswers ==
    { [i \in 1..Len(CommonTokenPairs) |-> [mgr |-> ZeroAddress, fac |-> THROWS]],
      [i \in 1..Len(CommonTokenPairs) |->
          IF i = 1 THEN [mgr |-> "0xlp1", fac |-> ZeroAddress]
          ELSE IF i = 8 THEN [mgr |-> THROWS, fac |-> "0xLP2"]
          ELSE [mgr |-> THROWS, fac |-> ZeroAddress]] }

\* what the voter and the gauges answer for each LP token; the last has
\* one position that earned 10^18 - 1 and one that earned 10^18
GaugeAnswers ==
    { [a \in {"0xlp1", "0xlp2"} |-> [gauge |-> ZeroAddress, staked |-> Big0, earned |-> Big0]],
      [a \in {"0xlp1", "0xlp2"} |->
          IF a = "0xlp1" THEN [gauge |-> "0xGauge1", staked |-> Big1e8, earned |-> Big1e20]
          ELSE [gauge |-> THROWS, staked |-> Big0, earned |-> Big0]],
      [a \in {"0xlp1", "0xlp2"} |->
          IF a = "0xlp1" THEN [gauge |-> "0xGauge1", staked |-> Big1e8, earned |-> Big1]
          ELSE [gauge |-> "0xGauge2", staked |-> Big1, earned |-> READFAIL]],
      [a \in {"0xlp1", "0xlp2"} |->
          IF a = "0xlp1" THEN [gauge |-> "0xGauge1", staked |-> READFAIL, earned |-> Big0]
          ELSE [gauge |-> "0xGauge2", staked |-> Big1e8, earned |-> Big1e20]],
      [a \in {"0xlp1", "0xlp2"} |->
          IF a = "0xlp1"
          THEN [gauge |-> "0xGauge1", staked |-> Big1e8, earned |-> <<9999, 9999, 9999, 9999, 99>>]
          ELSE [gauge |-> "0xGauge2", staked |-> Big1e8, earned |-> <<0, 0, 0, 0, 100>>]] }

\* what claimRewards meets for each LP token inside claimAllRewards
ClaimAnswers ==
    { [a \in {"0xlp1", "0xlp2"} |-> [earned |-> Big1e20, failAt |-> 0]],
      [a \in {"0xlp1", "0xlp2"} |->
          IF a = "0xlp1" THEN [earned |-> Big1e20, failAt |-> 1]
          ELSE [earned |-> Big1e20, failAt |-> 0]],
      [a \in {"0xlp1", "0xlp2"} |-> [earned |-> READFAIL, failAt |-> 0]] }

GetLPPositions ==
    /\ Ready
    /\ \E primary \in PrimaryAnswers, fallback \in FallbackAnswers :
          Done(GetLPPositionsResult("S", primary, fallback))

\* the operation returns r; where it ran past its guard it leaves
\* this.voterContract as r.out reports it
DoneWithVoter(r) ==
    /\ last' = r
    /\ sess' = IF NoManagerContract("S") THEN sess
               ELSE [sess EXCEPT !["S"].voterContract = r.out.voterContract]
    /\ UNCHANGED <<call, chainManager, addresses, abis, wf>>

GetStakedPositions ==
    /\ Ready
    /\ \E primary \in PrimaryAnswers, fallback \in FallbackAnswers,
          q \in PairAnswers, g \in GaugeAnswers :
          DoneWithVoter(GetStakedPositionsResult("S", primary, fallback, q, g))

ClaimAllRewards ==
    /\ Ready
    /\ \E primary \in PrimaryAnswers, fallback \in FallbackAnswers,
          q \in PairAnswers, g \in GaugeAnswers, c \in ClaimAnswers :
          \E sp \in {GetStakedPositionsResult("S", primary, fallback, q, g)} :
              DoneWithVoter(ClaimAllRewardsResult("S", sp, c))

\* attempt outcomes of createManager worth telling apart
CreateScenarios ==
    { <<"mined", "mined", "mined">>,
      <<"submitFail", "mined", "mined">>,
      <<"waitFail", "timeout", "mined">>,
      <<"timeout", "timeout", "timeout">>,
      <<"submitFail", "waitFail", "submitFail">>,
      <<"timeoutMined", "mined", "mined">>,
      <<"timeout", "waitFail", "timeoutMined">> }

CreateManager ==
    /\ Ready
    /\ \E addrOk \in BOOLEAN, namesCause \in BOOLEAN,
          gasPrice \in {[threw |-> TRUE],
                        [maxFeePerGas |-> <<7>>, maxPriorityFeePerGas |-> <<3>>],
                        [maxFeePerGas |-> <<123, 4>>, maxPriorityFeePerGas |-> NoFee]},
          lookupOk \in {<<TRUE, TRUE>>, <<FALSE, TRUE>>, <<TRUE, FALSE>>},
          outcomes \in CreateScenarios, eventFound \in BOOLEAN,
          r \in {ZeroAddress, "0xAeroFactory"}, failAt \in 0..1 :
          LET c == CreateManagerResult("S", addrOk, lookupOk, gasPrice, outcomes, namesCause,
                                       eventFound, r, failAt)
          IN  /\ last' = c.result
              /\ sess' = [sess EXCEPT !["S"].managerAddress = c.managerAddress,
                                      !["S"].managerContract = c.managerContract]
              /\ chainManager' = c.chain
              /\ UNCHANGED <<call, addresses, abis, wf>>

\* the caller reads the result
TakeResult ==
    /\ last.op # "none"
    /\ last' = NoResult
    /\ UNCHANGED <<sess, call, chainManager, addresses, abis, wf>>

\* the chain: a creation transaction of this user is mined, whoever sent it
FactoryRegisters ==
    /\ chainManager = ZeroAddress
    /\ chainManager' = ManagerAddr
    /\ UNCHANGED <<sess, call, addresses, abis, last, wf>>

----------------------------------------------------------------------------
(* The orchestrator (aerodromeUtils.ts).  Each of its functions makes its  *)
(* own manager: addLiquidityAndStake makes M1 and, through addLiquidity,   *)
(* M2.  wf is the running function: its position, its arguments, the      *)
(* manager methods it has invoked so far (steps), what its add-liquidity   *)
(* step returned (add) and what it returned itself (result).               *)

\* pool names the orchestrator is called with: two of the catalog, one of
\* the catalog whose second token may lack an address, and a name that is
\* no pair
OrchPoolNames == {"USDC-WETH", "USDC-AERO", "WETH-VEIL", "NOPE"}

\* poolName.split('-')
SplitPoolName(poolName) ==
    CASE poolName = "USDC-WETH" -> <<"USDC", "WETH">>
      [] poolName = "USDC-AERO" -> <<"USDC", "AERO">>
      [] poolName = "WETH-VEIL" -> <<"WETH", "VEIL">>
      [] poolName = "WETH-AERO" -> <<"WETH", "AERO">>
      [] OTHER -> <<poolName>>

\* what addLiquidity returns: success, message, the chain calls issued
\* since its manager was made, and its other fields
AddResult(ok, msg, trace, out) ==
    [op |-> "addLiquidity", success |-> ok, message |-> msg, trace |-> trace, out |-> out]

\* `!balance0Formatted`: of the values a token record can hold under
\* value, balance or any other key, only 0n is falsy
Falsy(balance) == balance = Big0

\* addLiquidity(poolName) from the return of manager.initialize() on: cr is
\* that initialize() call, reads what getTokenBalance answers per symbol,
\* failAt the chain call of the transaction that throws
OrchAddLiquidityResult(poolName, cr, reads, failAt) ==
    LET tokenSymbols == SplitPoolName(poolName) IN
    IF ~cr.ret.success \/ cr.ret.managerAddress = Null
    THEN AddResult(FALSE, "Failed to initialize manager", cr.trace, <<>>)
    ELSE IF Len(tokenSymbols) # 2
    THEN AddResult(FALSE, "Invalid pool name format", cr.trace, <<>>)
    ELSE IF ~HasAddress(tokenSymbols[1]) \/ ~HasAddress(tokenSymbols[2])
    THEN AddResult(FALSE, "Could not find addresses for tokens", cr.trace, <<>>)
    ELSE \* bound once: the balances of the manager
         LET balancesResult == GetManagerBalancesResult("M2", reads)
             token0Balance == balancesResult.out[tokenSymbols[1]]
             token1Balance == balancesResult.out[tokenSymbols[2]]
             balance0 == token0Balance.balance
             balance1 == token1Balance.balance
             read == cr.trace \o balancesResult.trace
             held == [reads |-> <<reads[tokenSymbols[1]], reads[tokenSymbols[2]]>>]
         IN
    IF ~balancesResult.success
    THEN AddResult(FALSE, "Failed to get token balances", read, <<>>)
    ELSE IF Falsy(balance0) \/ Falsy(balance1)
    THEN AddResult(FALSE, "Balance property not found in token objects", read, held)
    ELSE IF balance0 = Big0 \/ balance1 = Big0
    THEN AddResult(FALSE, "Insufficient balance for one or both tokens", read, held)
    ELSE LET keep == SlippageKeep(OrchSlippage)
             args == [amountADesired |-> balance0, amountBDesired |-> balance1,
                      minAmountA |-> MinAmount(balance0, keep),
                      minAmountB |-> MinAmount(balance1, keep)]
             plan == <<Tx("manager", "addLiquidityAerodrome"),
                       Wait("manager", "addLiquidityAerodrome")>>
             out == [reads |-> held.reads, pool |-> poolName, args |-> args,
                     lpTokenInfo |-> [liquidity |-> Big1]]
         IN  IF Threw(plan, failAt)
             THEN AddResult(FALSE, "Failed to add liquidity", read \o Executed(plan, failAt), out)
             ELSE AddResult(TRUE, "", read \o plan, out)

\* the stakeResult of a staking that was not attempted or not possible
NoStake(msg) == [success |-> FALSE, message |-> msg]

\* what addLiquidityAndStake returns: the fields of the add-liquidity
\* result it spreads, staked and stakeResult
StakeReturn(add, staked, stakeResult) ==
    [op |-> "addLiquidityAndStake", thrown |-> FALSE, success |-> add.success,
     message |-> add.message, staked |-> staked, stakeResult |-> stakeResult]

\* the staking part of addLiquidityAndStake after a successful add: pair is
\* what manager.getAerodromePair returned, stakeResult what
\* manager.stakeLPTokens(lpTokenAddress, poolName, "MAX") returns when called
StakeAfterAdd(add, pair, stakeResult) ==
    IF pair.out = Null
    THEN StakeReturn(add, FALSE, NoStake("No valid LP token address found for staking"))
    ELSE StakeReturn(add, TRUE, stakeResult)

\* a check that lets a failed add through to the staking
AddFailedNever(add) == FALSE

\* if (!addLiquidityResult.success)
AddFailed(add) == ~add.success

OrchFunctions == {"addLiquidity", "addLiquidityAndStake"}

\* a function of the orchestrator is called; getAerodromeManager() throws
\* when the environment lacks the provider URL or the key: addLiquidity
\* catches that, addLiquidityAndStake rethrows it
OrchStart ==
    /\ Ready
    /\ \E fn \in OrchFunctions, poolName \in OrchPoolNames, envOk \in BOOLEAN :
          LET started == [pc |-> "done", fn |-> fn, poolName |-> poolName, steps |-> <<>>,
                          add |-> NoResult, result |-> NoResult]
              failed == AddResult(FALSE, MsgThrown, <<>>, <<>>)
          IN  wf' = IF envOk
                    THEN [started EXCEPT !.pc = IF fn = "addLiquidity" THEN "init2" ELSE "init1"]
                    ELSE IF fn = "addLiquidity"
                    THEN [started EXCEPT !.add = failed, !.result = failed]
                    ELSE [started EXCEPT !.result = [op |-> fn, thrown |-> TRUE]]
    /\ UNCHANGED <<sess, call, chainManager, addresses, abis, last>>

\* await manager.initialize() of addLiquidityAndStake, on M1
OrchInitialize1 ==
    /\ wf.pc = "init1"
    /\ InitializeEnter("O1") \/ InitializeStep("O1")

\* ... whose result addLiquidityAndStake drops
OrchInitialized1 ==
    /\ wf.pc = "init1"
    /\ call["O1"].pc = "done"
    /\ wf' = [wf EXCEPT !.pc = "init2", !.steps = Append(@, "initialize")]
    /\ call' = [call EXCEPT !["O1"] = IdleCall]
    /\ UNCHANGED <<sess, chainManager, addresses, abis, last>>

\* await manager.initialize() of addLiquidity, on M2
OrchInitialize2 ==
    /\ wf.pc = "init2"
    /\ InitializeEnter("O2") \/ InitializeStep("O2")

\* the rest of addLiquidity, which ends the life of its manager M2, and
\* what addLiquidityAndStake does with its result: the early return with
\* the stake-skip message, or on to staking
OrchAddLiquidity ==
    /\ wf.pc = "init2"
    /\ call["O2"].pc = "done"
    /\ \E r0 \in {READFAIL, Big0, Big1, Big1e8}, r1 \in {READFAIL, Big0, Big5e16},
          failAt \in 0..2 :
          LET tokenSymbols == SplitPoolName(wf.poolName)
              reads == [symbol \in Symbols |->
                           IF symbol = tokenSymbols[1] THEN r0
                           ELSE IF Len(tokenSymbols) = 2 /\ symbol = tokenSymbols[2] THEN r1
                           ELSE Big1]
          IN  \E add \in {OrchAddLiquidityResult(wf.poolName, call["O2"], reads, failAt)} :
                wf' = IF wf.fn = "addLiquidity"
                      THEN [wf EXCEPT !.pc = "done", !.add = add, !.result = add,
                                      !.steps = Append(@, "addLiquidity")]
                      ELSE IF AddFailed(add)
                      THEN [wf EXCEPT !.pc = "done", !.add = add,
                                      !.steps = Append(@, "addLiquidity"),
                                      !.result = StakeReturn(add, FALSE,
                                          NoStake("Did not attempt staking because adding liquidity failed."))]
                      ELSE [wf EXCEPT !.pc = "stake", !.add = add,
                                      !.steps = Append(@, "addLiquidity")]
    /\ sess' = [sess EXCEPT !["M2"] = NewSession]
    /\ call' = [call EXCEPT !["O2"] = IdleCall]
    /\ UNCHANGED <<chainManager, addresses, abis, last>>

\* the LP-token lookup and the staking, both on M1
OrchStake ==
    /\ wf.pc = "stake"
    /\ \E throws \in {0, PairMaxRetries}, answer \in {ZeroAddress, "0xLP1"},
          gaugeRead \in {THROWS, ZeroAddress, "0xGauge1"}, lpRead \in {READFAIL, Big0, Big1e8},
          failAt \in 0..2 :
          \E pair \in {GetAerodromePairResult("M1", throws, answer)} :
          \E stakeResult \in {StakeLPTokensResult("M1", pair.out, wf.poolName, MAX,
                                                  gaugeRead, lpRead, failAt)} :
            wf' = [wf EXCEPT !.pc = "done",
                             !.steps = @ \o (IF pair.out = Null
                                             THEN <<"getAerodromePair">>
                                             ELSE <<"getAerodromePair", "stakeLPTokens">>),
                             !.result = StakeAfterAdd(wf.add, pair, stakeResult)]
    /\ UNCHANGED <<sess, call, chainManager, addresses, abis, last>>

\* the function has returned; its manager M1 is dropped with it
OrchReturn ==
    /\ wf.pc = "done"
    /\ wf' = NoWorkflow
    /\ sess' = [sess EXCEPT !["M1"] = NewSession]
    /\ UNCHANGED <<call, chainManager, addresses, abis, last>>

----------------------------------------------------------------------------
(* The orchestrator's functions on staked positions and on tokens:         *)
(* unstakeAndRemoveLiquidity, claimPoolRewards, depositTokens and          *)
(* withdrawTokens.  Each makes its manager M1 and initializes it; the      *)
(* first two look the staked positions up through the orchestrator's       *)
(* getStakedPositions(), which makes a manager of its own, M2.  wf holds   *)
(* the arguments (arg), the manager methods invoked (steps), the chain     *)
(* calls made through M1 (trace), how many of them were made when the      *)
(* position lookup returned (looked), the staked positions it returned     *)
(* (staked), the one found for the pool, what unstakeLPTokens and          *)
(* removeLiquidity returned, the LP positions listed after the unstaking   *)
(* (positions), and the balance withdrawTokens read.                       *)

\* String.prototype.toLowerCase() on the pool names that are met
toLowerCase(name) ==
    CASE name = "USDC-WETH"    -> "usdc-weth"
      [] name = "WETH-AERO"    -> "weth-aero"
      [] name = "USDC-AERO"    -> "usdc-aero"
      [] name = "WETH-VIRTUAL" -> "weth-virtual"
      [] name = "USDC-VIRTUAL" -> "usdc-virtual"
      [] name = "AERO-VIRTUAL" -> "aero-virtual"
      [] name = "WETH-TN100x"  -> "weth-tn100x"
      [] name = "WETH-VEIL"    -> "weth-veil"
      [] name = "Unknown Pool" -> "unknown pool"
      [] name = "NOPE"         -> "nope"
      [] OTHER                 -> name

\* parseFloat(amount) of the amount texts that are met
parseFloat(text) ==
    CASE text = "42.5" -> [digits |-> <<425>>, scale |-> 1]
      [] text = "1"    -> [digits |-> Big1, scale |-> 0]
      [] OTHER         -> [nan |-> TRUE]

\* the calls of the orchestrator's functions, with their arguments
OrchCalls ==
    {[fn |-> "unstakeAndRemoveLiquidity", poolName |-> poolName] :
        poolName \in {"USDC-WETH", "usdc-weth", "WETH-AERO", "NOPE"}}
    \cup {[fn |-> "claimPoolRewards", poolName |-> poolName] :
            poolName \in {"USDC-WETH", "usdc-weth", "WETH-VEIL", "NOPE"}}
    \cup {[fn |-> "depositTokens", tokenSymbol |-> tokenSymbol,
           amount |-> [digits |-> <<425>>, scale |-> 1]] : tokenSymbol \in {"USDC", "DOGE"}}
    \cup {[fn |-> "withdrawTokens", tokenSymbol |-> tokenSymbol, amount |-> amount] :
            tokenSymbol \in {"USDC", "DOGE"}, amount \in {"ALL", "MAX", "42.5", "abc"}}
    \cup {[fn |-> fn, poolName |-> poolName] :
            fn \in {"claimPoolFees", "getPoolClaimableFees"},
            poolName \in {"USDC-WETH", "WETH-VEIL", "NOPE"}}
    \cup {[fn |-> "claimAllPoolRewards"]}

\* a chain on which "0xLP2" is the WETH/AERO pair, which the catalog lacks:
\* what the pair lookups answer, and what the manager lists as LP positions
AdHocPairAnswers ==
    { [i \in 1..Len(CommonTokenPairs) |->
          IF i = 3 THEN [mgr |-> "0xLP2", fac |-> ZeroAddress]
          ELSE [mgr |-> ZeroAddress, fac |-> ZeroAddress]] }

AdHocPrimaryAnswers ==
    { [threw |-> FALSE,
       positions |-> << [lpToken |-> "0xLP2", balance |-> Big1e8, token0 |-> "WETH",
                         token1 |-> "AERO", tokensOk |-> TRUE] >>] }

\* a search that takes the first position whatever its pool
FindPositionAnyPool(positions, poolName) == positions

\* positions.find(position =>
\*     position.poolName.toLowerCase() === poolName.toLowerCase()),
\* as the sequence of the positions that pass: find returns its head
FindPosition(positions, poolName) ==
    SelectSeq(positions, LAMBDA p : toLowerCase(p.poolName) = toLowerCase(poolName))

\* a test that finds rewards on every position
NoRewardsNever(stakedPosition) == FALSE

\* stakedPosition.earned === 0n (earned is a bigint, never the string '0')
NoRewards(stakedPosition) == stakedPosition.earned = Big0

\* a test that lets a failed unstaking through
UnstakeFailedNever(unstakeResult) == FALSE

\* if (!unstakeResult.success)
UnstakeFailed(unstakeResult) == ~unstakeResult.success

\* the records the functions return
OrchResult(fn, ok, msg, out) == [op |-> fn, success |-> ok, message |-> msg, out |-> out]
Unstaked(ok, msg, unstaked, removed) ==
    OrchResult("unstakeAndRemoveLiquidity", ok, msg, [unstaked |-> unstaked, removed |-> removed])

\* what claimAllPoolRewards returns: an array of results
OrchList(fn, list) == [op |-> fn, list |-> list]

\* the functions that split the pool name before they make a manager
SplitsFirst == {"claimPoolFees", "getPoolClaimableFees"}
MsgInvalidFormat == "Invalid pool name format"
MsgNoAddresses == "Could not find addresses for tokens"

\* the function is called: claimPoolFees and getPoolClaimableFees return
\* at once on a pool name that is not two symbols; getAerodromeManager()
\* throws when the environment lacks the provider URL or the key, which
\* depositTokens rethrows and the others catch
OrchCall ==
    /\ Ready
    /\ \E arg \in OrchCalls, envOk \in BOOLEAN :
          LET started == [pc |-> "init1", fn |-> arg.fn, arg |-> arg, steps |-> <<>>,
                          trace |-> <<>>, looked |-> 0, staked |-> <<>>, found |-> <<>>,
                          unstake |-> NoResult, remove |-> NoResult, balance |-> READFAIL,
                          positions |-> <<>>, claimable |-> READFAIL, result |-> NoResult]
              malformed == arg.fn \in SplitsFirst /\ Len(SplitPoolName(arg.poolName)) # 2
              caught ==
                  CASE arg.fn = "unstakeAndRemoveLiquidity" -> Unstaked(FALSE, MsgThrown, FALSE, FALSE)
                    [] arg.fn = "claimPoolRewards" ->
                         OrchResult(arg.fn, FALSE, MsgThrown, [poolName |-> arg.poolName])
                    [] arg.fn = "withdrawTokens" ->
                         OrchResult(arg.fn, FALSE, MsgThrown,
                                    [tokenSymbol |-> arg.tokenSymbol,
                                     amount |-> [text |-> arg.amount]])
                    [] arg.fn \in SplitsFirst ->
                         OrchResult(arg.fn, FALSE, MsgThrown, [poolName |-> arg.poolName])
                    [] arg.fn = "claimAllPoolRewards" ->
                         OrchList(arg.fn, <<[success |-> FALSE, message |-> MsgThrown]>>)
                    [] OTHER -> [op |-> arg.fn, thrown |-> TRUE]
          IN  wf' = IF malformed
                    THEN [started EXCEPT !.pc = "done",
                             !.result = OrchResult(arg.fn, FALSE, MsgInvalidFormat,
                                                   [poolName |-> arg.poolName])]
                    ELSE IF envOk THEN started
                    ELSE [started EXCEPT !.pc = "done", !.result = caught]
    /\ UNCHANGED <<sess, call, chainManager, addresses, abis, last>>

\* await manager.initialize() has returned on M1; its result is dropped.
\* claimPoolFees and getPoolClaimableFees then look the two symbols up in
\* ADDRESSES.BASE and return when one has no address
OrchManagerReady ==
    /\ wf.pc = "init1"
    /\ call["O1"].pc = "done"
    /\ LET unknown == /\ wf.fn \in SplitsFirst
                      /\ \E i \in 1..2 : ~HasAddress(SplitPoolName(wf.arg.poolName)[i])
           ready == [wf EXCEPT !.pc = CASE wf.fn = "depositTokens" -> "deposit"
                                        [] wf.fn = "withdrawTokens" -> "withdraw"
                                        [] wf.fn = "claimAllPoolRewards" -> "claimAll"
                                        [] wf.fn = "getPoolClaimableFees" -> "fees"
                                        [] OTHER -> "init2",
                               !.steps = Append(@, "initialize"),
                               !.trace = call["O1"].trace]
       IN  wf' = IF unknown
                 THEN [ready EXCEPT !.pc = "done",
                          !.result = OrchResult(wf.fn, FALSE, MsgNoAddresses,
                                                [poolName |-> wf.arg.poolName])]
                 ELSE ready
    /\ call' = [call EXCEPT !["O1"] = IdleCall]
    /\ UNCHANGED <<sess, chainManager, addresses, abis, last>>

\* the orchestrator's getStakedPositions() on its manager M2, which ends
\* with it, then the search of the staked position of the pool and, in
\* claimPoolRewards, the test of its earned amount
OrchFindStakedPosition ==
    /\ wf.pc = "init2"
    /\ wf.fn \in {"unstakeAndRemoveLiquidity", "claimPoolRewards"}
    /\ call["O2"].pc = "done"
    /\ \E primary \in PrimaryAnswers, fallback \in FallbackAnswers,
          q \in PairAnswers \cup AdHocPairAnswers, g \in GaugeAnswers :
          \E sp \in {GetStakedPositionsResult("M2", primary, fallback, q, g)} :
            LET staked == IF sp.success THEN sp.out.stakedPositions ELSE <<>>
                matches == FindPosition(staked, wf.arg.poolName)
                fail(msg) == IF wf.fn = "claimPoolRewards"
                             THEN OrchResult(wf.fn, FALSE, msg, [poolName |-> wf.arg.poolName])
                             ELSE Unstaked(FALSE, msg, FALSE, FALSE)
                looked == [wf EXCEPT !.steps = Append(@, "getStakedPositions"),
                                     !.looked = Len(wf.trace), !.staked = staked,
                                     !.pc = "done"]
            IN  wf' = IF ~sp.success
                      THEN [looked EXCEPT !.result = fail("Could not retrieve staked positions")]
                      ELSE IF matches = <<>>
                      THEN [looked EXCEPT !.result = fail("No staked position found")]
                      ELSE IF wf.fn = "claimPoolRewards" /\ NoRewards(Head(matches))
                      THEN [looked EXCEPT !.found = <<Head(matches)>>,
                                          !.result = fail("No rewards to claim")]
                      ELSE [looked EXCEPT !.found = <<Head(matches)>>,
                                          !.pc = IF wf.fn = "claimPoolRewards"
                                                 THEN "claim" ELSE "unstake"]
    /\ sess' = [sess EXCEPT !["M2"] = NewSession]
    /\ call' = [call EXCEPT !["O2"] = IdleCall]
    /\ UNCHANGED <<chainManager, addresses, abis, last>>

\* manager.unstakeLPTokens(lpToken, poolName, gauge, "MAX") of
\* unstakeAndRemoveLiquidity
OrchUnstake ==
    /\ wf.pc = "unstake"
    /\ \E stakedRead \in {READFAIL, Big0, Big1e8}, failAt \in 0..2 :
          \E r \in {UnstakeLPTokensResult("M1", wf.found[1].lpToken, wf.arg.poolName,
                                          wf.found[1].gauge, MAX, stakedRead, failAt)} :
            wf' = [wf EXCEPT !.steps = Append(@, "unstakeLPTokens"),
                             !.trace = @ \o r.trace,
                             !.unstake = r,
                             !.pc = IF UnstakeFailed(r) THEN "done" ELSE "remove",
                             !.result = IF UnstakeFailed(r)
                                        THEN Unstaked(FALSE, "Failed to unstake LP tokens",
                                                      FALSE, FALSE)
                                        ELSE NoResult]
    /\ UNCHANGED <<sess, call, chainManager, addresses, abis, last>>

\* what follows the unstaking: manager.getLPPositions(), the search of the
\* LP position of the pool, and manager.removeLiquidity(poolName, 100)
OrchRemove ==
    /\ wf.pc = "remove"
    /\ \E primary \in PrimaryAnswers \cup AdHocPrimaryAnswers, fallback \in FallbackAnswers,
          poolRead \in {THROWS, ZeroAddress, "0xLP1"}, lpRead \in {READFAIL, Big0, Big1e8},
          failAt \in 0..2 :
          \E lp \in {GetLPPositionsResult("M1", primary, fallback)} :
          \E rm \in {RemoveLiquidityResult("M1", wf.arg.poolName, 100, poolRead, lpRead, failAt)} :
            LET matches == FindPosition(lp.out, wf.arg.poolName)
                ended == [wf EXCEPT !.pc = "done", !.steps = Append(@, "getLPPositions"),
                                    !.trace = @ \o lp.trace, !.positions = lp.out]
            IN  wf' = IF ~lp.success
                      THEN [ended EXCEPT !.result = Unstaked(TRUE,
                                "LP tokens unstaked but could not retrieve LP positions for removal",
                                TRUE, FALSE)]
                      ELSE IF matches = <<>>
                      THEN [ended EXCEPT !.result = Unstaked(TRUE,
                                "LP tokens unstaked but no LP position found for removal",
                                TRUE, FALSE)]
                      ELSE [ended EXCEPT
                               !.steps = Append(@, "removeLiquidity"),
                               !.trace = @ \o rm.trace,
                               !.remove = rm,
                               !.result = IF rm.success
                                          THEN Unstaked(TRUE, "Successfully unstaked LP tokens and removed liquidity",
                                                        TRUE, TRUE)
                                          ELSE Unstaked(TRUE, "LP tokens unstaked but failed to remove liquidity",
                                                        TRUE, FALSE)]
    /\ UNCHANGED <<sess, call, chainManager, addresses, abis, last>>

\* manager.claimRewards(lpToken, poolName, gauge) of claimPoolRewards
OrchClaim ==
    /\ wf.pc = "claim"
    /\ \E earnedRead \in {READFAIL, Big0, Big1e20}, failAt \in 0..2 :
          \E r \in {ClaimRewardsResult("M1", wf.found[1].lpToken, wf.arg.poolName,
                                       wf.found[1].gauge, earnedRead, failAt)} :
            wf' = [wf EXCEPT !.pc = "done",
                             !.steps = Append(@, "claimRewards"),
                             !.trace = @ \o r.trace,
                             !.result = OrchResult(wf.fn, r.success,
                                            IF r.success THEN "Successfully claimed"
                                            ELSE "Failed to claim rewards",
                                            [poolName |-> wf.arg.poolName,
                                             lpToken |-> wf.found[1].lpToken,
                                             gaugeAddress |-> wf.found[1].gauge])]
    /\ UNCHANGED <<sess, call, chainManager, addresses, abis, last>>

\* return await manager.depositTokens(tokenSymbol, amount)
OrchDeposit ==
    /\ wf.pc = "deposit"
    /\ \E allowance \in {Big0, Big1e20}, failAt \in 0..5 :
          \E r \in {DepositTokensResult("M1", wf.arg.tokenSymbol,
                        ParseUnits(wf.arg.amount, TokenDecimals(wf.arg.tokenSymbol)),
                        allowance, failAt)} :
            wf' = [wf EXCEPT !.pc = "done",
                             !.steps = Append(@, "depositTokens"),
                             !.trace = @ \o r.trace,
                             !.result = OrchResult(wf.fn, r.success, r.message, r.out)]
    /\ UNCHANGED <<sess, call, chainManager, addresses, abis, last>>

\* withdrawTokens after its initialize(): the amount is parsed, then
\* manager.withdrawTokens(tokenSymbol, parsedAmount) runs and its result is
\* returned with tokenSymbol and amount: parsedAmount laid over it
OrchWithdraw ==
    /\ wf.pc = "withdraw"
    /\ \E balanceRead \in {READFAIL, Big0, <<0, 4250>>, Big1e8}, failAt \in 0..2 :
          LET sentinel == wf.arg.amount \in {"ALL", "MAX"}
              parsedAmount == IF sentinel THEN [text |-> "ALL"] ELSE parseFloat(wf.arg.amount)
              isNaN == "nan" \in DOMAIN parsedAmount
          IN  \E r \in {WithdrawTokensResult("M1", wf.arg.tokenSymbol,
                            IF sentinel THEN ALL
                            ELSE IF isNaN THEN Big0
                            ELSE ParseUnits(parsedAmount, TokenDecimals(wf.arg.tokenSymbol)),
                            balanceRead, failAt)} :
                wf' = IF isNaN
                      THEN [wf EXCEPT !.pc = "done",
                                      !.result = OrchResult(wf.fn, FALSE, "Invalid amount", <<>>)]
                      ELSE [wf EXCEPT !.pc = "done",
                                      !.steps = Append(@, "withdrawTokens"),
                                      !.trace = @ \o r.trace,
                                      !.balance = IF Len(r.trace) > 0 THEN balanceRead ELSE @,
                                      !.result = OrchResult(wf.fn, r.success, r.message,
                                          [tokenSymbol |-> wf.arg.tokenSymbol,
                                           amount |-> parsedAmount,
                                           parsedAmount |-> IF "parsedAmount" \in DOMAIN r.out
                                                            THEN r.out.parsedAmount ELSE READFAIL])]
    /\ UNCHANGED <<sess, call, chainManager, addresses, abis, last>>

\* claimFees(token0, token1, stable) of claimPoolFees: it makes a manager
\* of its own, M2, and runs manager.claimFees on it, which ends the life of
\* M2.  claimable is what the pool owes the manager of each token, which
\* the FeesClaimed event of the mined transaction reports.
OrchClaimFees ==
    /\ wf.pc = "init2"
    /\ wf.fn = "claimPoolFees"
    /\ call["O2"].pc = "done"
    /\ \E claimable \in {Big0, Big1e8}, found \in BOOLEAN, failAt \in 0..3 :
          \E r \in {ClaimFeesResult("M2", failAt, [found |-> found, amount0 |-> claimable,
                                                    amount1 |-> claimable])} :
            wf' = [wf EXCEPT !.pc = "done",
                             !.steps = Append(@, "claimFees"),
                             !.trace = @ \o r.trace,
                             !.claimable = claimable,
                             !.result = OrchResult(wf.fn, r.success,
                                            IF r.success THEN "Successfully claimed fees"
                                            ELSE r.message,
                                            r.out)]
    /\ sess' = [sess EXCEPT !["M2"] = NewSession]
    /\ call' = [call EXCEPT !["O2"] = IdleCall]
    /\ UNCHANGED <<chainManager, addresses, abis, last>>

\* manager.getClaimableFees(token0, token1, stable) of getPoolClaimableFees
OrchPoolFees ==
    /\ wf.pc = "fees"
    /\ \E kind \in {"ok", "throws", "malformed"}, throws \in {0, PairMaxRetries},
          answer \in {ZeroAddress, "0xLP1"}, abiHas \in BOOLEAN, failAt \in 0..3,
          claimable \in {Big0, Big1e8} :
          LET amounts == [kind |-> kind, lpBalance |-> Uint(Big1e8),
                          claimable0Amount |-> Uint(claimable),
                          claimable1Amount |-> Uint(claimable)]
          IN  \E r \in {GetClaimableFeesResult("M1", amounts, throws, answer, abiHas,
                                                amounts, failAt)} :
                wf' = [wf EXCEPT !.pc = "done",
                                 !.steps = Append(@, "getClaimableFees"),
                                 !.trace = @ \o r.trace,
                                 !.claimable = claimable,
                                 !.result = OrchResult(wf.fn, r.success,
                                                IF r.success THEN "" ELSE r.message,
                                                r.out)]
    /\ UNCHANGED <<sess, call, chainManager, addresses, abis, last>>

\* for (const poolResult of result.results) claimResults.push({ success:
\* true, ... }): one entry for each result manager.claimAllRewards() kept
ClaimEntries(out) ==
    [i \in 1..Len(out.results) |-> [success |-> TRUE, lpToken |-> out.results[i].lpToken]]

\* manager.claimAllRewards() of claimAllPoolRewards and the array made of
\* its result; attempted and outcomes tell the claims it made
OrchClaimAll ==
    /\ wf.pc = "claimAll"
    /\ \E primary \in PrimaryAnswers, fallback \in FallbackAnswers,
          q \in PairAnswers, g \in GaugeAnswers, c \in ClaimAnswers :
          \E sp \in {GetStakedPositionsResult("M1", primary, fallback, q, g)} :
          \E r \in {ClaimAllRewardsResult("M1", sp, c)} :
            /\ wf' = [wf EXCEPT
                         !.pc = "done",
                         !.steps = Append(@, "claimAllRewards"),
                         !.trace = @ \o r.trace,
                         !.result = IF ~r.success
                                    THEN OrchList(wf.fn, <<[success |-> FALSE,
                                                            message |-> r.message]>>)
                                         @@ [claims |-> r.out]
                                    ELSE OrchList(wf.fn, ClaimEntries(r.out))
                                         @@ [claims |-> r.out]]
            /\ sess' = IF NoManagerContract("M1") THEN sess
                       ELSE [sess EXCEPT !["M1"].voterContract = r.out.voterContract]
    /\ UNCHANGED <<call, chainManager, addresses, abis, last>>

\* toBigInt(value) of one presentation of an unsigned integer
CoerceInteger ==
    /\ last.op = "none"
    /\ \E n \in SampleIntegers, form \in DOMAIN Presentations(Big0) :
          \E value \in {Presentations(n)[form]} :
              \E result \in {toBigInt(value)} :
                  last' = [op |-> "toBigInt", integer |-> n, form |-> form,
                           value |-> value, result |-> result]
    /\ UNCHANGED <<sess, call, chainManager, addresses, abis, wf>>

\* toBigInt(value) of any other value
CoerceOther ==
    /\ last.op = "none"
    /\ \E value \in OtherValues :
          \E result \in {toBigInt(value)} :
              last' = [op |-> "toBigInt", form |-> "other", value |-> value,
                       result |-> result]
    /\ UNCHANGED <<sess, call, chainManager, addresses, abis, wf>>

----------------------------------------------------------------------------
(* Specifications *)

Init ==
    /\ sess = [s \in Sessions |-> NewSession]
    /\ call = [c \in Calls |-> IdleCall]
    /\ chainManager \in {ZeroAddress, ManagerAddr}
    /\ addresses \in AddressTables
    /\ abis \in AbiConfigs
    /\ last = NoResult
    /\ wf = NoWorkflow

\* one caller on session "S", one operation at a time
Next ==
    \/ (Ready /\ InitializeEnter("A"))
    \/ InitializeStep("A")
    \/ InitializeReturn("A")
    \/ GetManagerBalances
    \/ GetLPPositions
    \/ GetStakedPositions
    \/ DepositTokens
    \/ AddLiquidity
    \/ RemoveLiquidity
    \/ WithdrawTokens
    \/ CreateManager
    \/ StakeLPTokens
    \/ UnstakeLPTokens
    \/ ClaimRewards
    \/ ClaimAllRewards
    \/ GetAerodromePair
    \/ GetClaimableFees
    \/ ClaimFees
    \/ IsManager
    \/ AddManager
    \/ RemoveManager
    \/ TakeResult
    \/ FactoryRegisters

Spec == Init /\ [][Next]_vars

\* two callers on session "S" whose initialize() calls interleave at their
\* suspension points
NextInit ==
    \/ \E c \in {"A", "B"} : InitializeEnter(c) \/ InitializeStep(c) \/ InitializeReturn(c)
    \/ FactoryRegisters

SpecInit == Init /\ [][NextInit]_vars

\* the two ways of adding liquidity: the caller of session "S" through the
\* gateway, and the orchestrator's functions through managers of their own
NextOrch ==
    \/ (Ready /\ InitializeEnter("A"))
    \/ InitializeStep("A")
    \/ InitializeReturn("A")
    \/ AddLiquidity
    \/ TakeResult
    \/ OrchStart
    \/ OrchInitialize1
    \/ OrchInitialized1
    \/ OrchInitialize2
    \/ OrchAddLiquidity
    \/ OrchStake
    \/ OrchReturn
    \/ FactoryRegisters

SpecOrch == Init /\ [][NextOrch]_vars

\* the orchestrator's functions on staked positions and on tokens, one call
\* at a time
NextCalls ==
    \/ OrchCall
    \/ OrchInitialize1
    \/ OrchManagerReady
    \/ OrchInitialize2
    \/ OrchFindStakedPosition
    \/ OrchUnstake
    \/ OrchRemove
    \/ OrchClaim
    \/ OrchDeposit
    \/ OrchWithdraw
    \/ OrchClaimFees
    \/ OrchPoolFees
    \/ OrchClaimAll
    \/ OrchReturn
    \/ FactoryRegisters

SpecCalls == Init /\ [][NextCalls]_vars

\* toBigInt applied to one value at a time
NextCoerce == CoerceInteger \/ CoerceOther \/ TakeResult

SpecCoerce == Init /\ [][NextCoerce]_vars

----------------------------------------------------------------------------
(* Properties *)

\* C1: on a session whose initialized flag is true, a further initialize()
\* returns success:true at once, issues no chain read or transaction, and
\* leaves managerAddress, managerContract, voterContract, initialized and
\* initializing as they were
C1_InitializeIdempotent ==
    [][\A c \in Calls :
          (call[c].pc = "idle" /\ call'[c].pc # "idle" /\ sess[SessionOf(c)].initialized)
          => /\ call'[c].pc = "done"
             /\ call'[c].ret.success
             /\ call'[c].trace = <<>>
             /\ sess' = sess
             /\ chainManager' = chainManager]_vars

C1_Witness ==
    /\ call["A"].pc = "done"
    /\ call["A"].ret.message = "Already initialized"
    /\ sess["S"].initialized

\* C2: at most one initialize() of a session is past the guard and not yet
\* returned; a call made while another one is there is rejected with
\* success:false "Initialization already in progress", without a chain call
\* and without a change of the session
C2_InitializeExclusive ==
    /\ [](\A c, d \in Calls :
             (InFlight(c) /\ InFlight(d) /\ SessionOf(c) = SessionOf(d)) => c = d)
    /\ [][\A c \in Calls :
             (/\ call[c].pc = "idle" /\ call'[c].pc # "idle"
              /\ \E d \in Calls \ {c} : SessionOf(d) = SessionOf(c) /\ InFlight(d))
             => /\ call'[c].pc = "done"
                /\ ~call'[c].ret.success
                /\ call'[c].ret.message = "Initialization already in progress"
                /\ call'[c].trace = <<>>
                /\ sess' = sess]_vars

C2_Witness ==
    /\ InFlight("A")
    /\ call["B"].pc = "done"
    /\ call["B"].ret.message = "Initialization already in progress"

\* the part of C3 about initialize() itself: the zero address makes it
\* return success:false with the "no manager" message, having submitted no
\* transaction, with initialized false and no manager handle
NoManagerReturn ==
    \A c \in Calls :
        (call[c].pc = "done"
         /\ call[c].ret.message = "No manager found for your address. Create one first.")
        => /\ ~call[c].ret.success
           /\ TxsOf(call[c].trace) = {}
           /\ ~sess[SessionOf(c)].initialized
           /\ sess[SessionOf(c)].managerContract = Null
           /\ sess[SessionOf(c)].managerAddress = ZeroAddress

\* C3 as stated: after initialize() met the zero address, every gateway
\* operation on the session returns success:false "Manager not initialized"
\* without a chain call
C3_AsStated ==
    /\ NoManagerReturn
    /\ (last.op # "none" /\ last.pre.managerAddress = ZeroAddress)
       => /\ ~last.success
          /\ last.message = MsgNotInitialized
          /\ last.trace = <<>>

\* C3, amended: after initialize() met the zero address, and until
\* createManager() installs a handle, every gateway operation other than
\* createManager() fails without a chain call, with the not-initialized
\* message of its own guard (getAerodromePair returns null)
C3_NoManager ==
    /\ NoManagerReturn
    /\ (last.op \notin {"none", "createManager"} /\ last.pre.managerAddress = ZeroAddress)
       => /\ ~last.success
          /\ last.trace = <<>>
          /\ last.pre.managerContract = Null
          /\ ~last.pre.initialized
          /\ last.message =
               CASE last.op \in {"isManager", "addManager", "removeManager"}
                        -> "Manager contract not initialized"
                 [] last.op = "stakeLPTokens" -> "Manager or Voter contract not initialized"
                 [] last.op = "getAerodromePair" -> Null
                 [] OTHER -> MsgNotInitialized

C3_Witness ==
    /\ last.op = "withdrawTokens"
    /\ last.pre.managerAddress = ZeroAddress
    /\ call["A"].ret.message = "No manager found for your address. Create one first."

\* C4 as stated: after initialize() found that owner() is not the caller,
\* it has returned success:false, initialized is false, and no operation
\* on the session submits a transaction through the manager contract
C4_OwnershipFatal ==
    (call["A"].pc = "idle" /\ call["A"].ret.message = "You are not the owner of this manager.")
    => /\ ~call["A"].ret.success
       /\ ~sess["S"].initialized
       /\ last.op # "none" => ManagerTxsOf(last.trace) = {}

\* C5: initialize() past its last fallible step succeeds and sets
\* initialized whether or not the voter handle could be made; and
\* getStakedPositions() on a session that has no voter handle returns
\* success:true with no staked position
C5_VoterNonFatal ==
    /\ [][\A c \in Calls :
             (/\ call[c].pc \in {"aerodromeFactory", "txWait"}
              /\ call'[c].pc = "done"
              /\ call'[c].ret.message #
                   "Failed to set Aerodrome factory address. Please check contract permissions.")
             => /\ call'[c].ret.success
                /\ sess'[SessionOf(c)].initialized
                /\ ~sess'[SessionOf(c)].initializing
                /\ (sess'[SessionOf(c)].voterContract = Null) = ~abis.voter]_vars
    /\ []((/\ last.op = "getStakedPositions"
           /\ last.pre.managerContract # Null
           /\ last.out.voterContract = Null)
          => (last.success /\ last.out.stakedPositions = <<>>))

C5_Witness ==
    /\ last.op = "getStakedPositions"
    /\ last.pre.initialized
    /\ last.pre.voterContract = Null
    /\ last.out.voterContract = Null
    /\ last.out.positions # <<>>
    /\ call["A"].ret.success

\* C6 as stated: on an initialized session getManagerBalances() returns
\* success:true with one record for each symbol of the allow-list, whatever
\* reads fail and whatever the address table holds; a symbol whose read
\* fails or whose address is not resolved gets a zero-filled record with an
\* error note
C6_OneRecordPerSymbol ==
    (last.op = "getManagerBalances" /\ last.pre.initialized)
    => /\ last.success
       /\ DOMAIN last.out = Symbols
       /\ \A symbol \in DOMAIN last.out :
             /\ last.out[symbol].symbol = symbol
             /\ BigLeq(Big0, last.out[symbol].balance)
             /\ last.out[symbol].error => last.out[symbol].balance = Big0

\* an add-liquidity result that got as far as reading balances, and one in
\* which the chain held zero of a leg
HasReads(r) == r.op = "addLiquidity" /\ "reads" \in DOMAIN r.out
ZeroLeg(r) == HasReads(r) /\ \E i \in 1..Len(r.out.reads) : r.out.reads[i] = Big0
BalanceReadsBefore(trace, i) ==
    {j \in 1..(i - 1) : trace[j] = Read("manager", "getTokenBalance")}
AddTxsOf(trace) ==
    {i \in 1..Len(trace) : trace[i] \in {Tx("manager", "approveToken"),
                                         Tx("manager", "addLiquidityAerodrome")}}

\* of one add-liquidity result: a zero leg means success:false and no
\* transaction of the kinds txs, and every such transaction comes after the
\* reads of both balances
ChecksBalancesFirst(r, txs) ==
    /\ ZeroLeg(r) => ~r.success /\ txs = {}
    /\ \A i \in txs : /\ HasReads(r)
                      /\ ~ZeroLeg(r)
                      /\ Cardinality(BalanceReadsBefore(r.trace, i)) >= 2

\* the transactions of a trace that were submitted: the call returned, so
\* it is not the last of the trace
SubmittedTxsOf(trace) == {i \in TxsOf(trace) : i < Len(trace)}

\* C7 as stated: in the gateway's addLiquidity and in the orchestrator's, a
\* zero balance of either leg means success:false, and the reads of both
\* balances precede the first transaction of any kind the call submits
C7_AsStated ==
    /\ last.op = "addLiquidity" => ChecksBalancesFirst(last, SubmittedTxsOf(last.trace))
    /\ wf.pc # "none" /\ wf.add.op = "addLiquidity"
          => ChecksBalancesFirst(wf.add, SubmittedTxsOf(wf.add.trace))

\* C7: in the gateway's addLiquidity and in the orchestrator's, a zero
\* balance of either leg means success:false with no approveToken and no
\* addLiquidityAerodrome transaction, and the reads of both balances precede
\* every approveToken and addLiquidityAerodrome transaction
C7_NoAddOnZeroLeg ==
    /\ last.op = "addLiquidity" => ChecksBalancesFirst(last, AddTxsOf(last.trace))
    /\ wf.pc # "none" /\ wf.add.op = "addLiquidity"
          => ChecksBalancesFirst(wf.add, AddTxsOf(wf.add.trace))

\* the orchestrator's addLiquidity found a leg at zero after its
\* initialize() had submitted setAerodromeFactory
C7_Witness ==
    /\ wf.pc # "none"
    /\ ZeroLeg(wf.add)
    /\ ~wf.add.success
    /\ \E i \in SubmittedTxsOf(wf.add.trace) :
          wf.add.trace[i] = Tx("manager", "setAerodromeFactory")
    /\ \E i \in 1..Len(wf.add.trace) : BalanceReadsBefore(wf.add.trace, i) # {}

\* min is floor(balance * keep / 10000) and lies in 0..balance
IsFloorMin(min, balance, keep) ==
    /\ BigLeq(BigMul(min, 10000), BigMul(balance, keep))
    /\ BigLess(BigMul(balance, keep), BigMul(BigPlus(min, Big1), 10000))
    /\ BigLeq(Big0, min)
    /\ BigLeq(min, balance)

\* of one add-liquidity result that computed its arguments: the desired
\* amounts are the balances read and the minimums are the floors for a
\* tolerance of percent per cent
ExactMinimums(r, percent) ==
    "args" \in DOMAIN r.out =>
        /\ r.out.args.amountADesired = r.out.reads[1]
        /\ r.out.args.amountBDesired = r.out.reads[2]
        /\ IsFloorMin(r.out.args.minAmountA, r.out.reads[1], 10000 - percent * 100)
        /\ IsFloorMin(r.out.args.minAmountB, r.out.reads[2], 10000 - percent * 100)

AddStepDone == wf.pc # "none" /\ wf.fn = "addLiquidityAndStake" /\ wf.add.op = "addLiquidity"
StakeReturned == AddStepDone /\ wf.pc = "done"

\* C9: once the add-liquidity step of addLiquidityAndStake has returned
\* success:false, the function has returned success:false, staked:false and
\* a failed stakeResult with the stake-skip message, and has invoked
\* neither getAerodromePair nor stakeLPTokens
C9_NoStakeAfterFailedAdd ==
    AddStepDone /\ ~wf.add.success =>
        /\ wf.pc = "done"
        /\ ~wf.result.thrown
        /\ ~wf.result.success
        /\ ~wf.result.staked
        /\ ~wf.result.stakeResult.success
        /\ wf.result.stakeResult.message
              = "Did not attempt staking because adding liquidity failed."
        /\ \A i \in 1..Len(wf.steps) : wf.steps[i] \notin {"getAerodromePair", "stakeLPTokens"}

\* addLiquidityAndStake returned after its add-liquidity step failed on a
\* zero balance
C9_Witness ==
    /\ StakeReturned
    /\ ZeroLeg(wf.add)
    /\ ~wf.add.success
    /\ ~wf.result.staked

\* C10: when addLiquidityAndStake returns after a successful add, its
\* result has success:true, and staked is true only if the nested
\* stakeResult has success:true
C10_StakedOnlyIfStakeSucceeded ==
    StakeReturned /\ wf.add.success =>
        /\ wf.result.success
        /\ wf.result.staked => wf.result.stakeResult.success

\* the orchestrator's function fn has run to its return
Returns(fn) == wf.pc = "done" /\ wf.fn = fn /\ "success" \in DOMAIN wf.result
Invoked(method) == \E i \in 1..Len(wf.steps) : wf.steps[i] = method
Before(first, second, third) ==
    \E j, k \in 1..Len(wf.trace) :
        j < k /\ k < third /\ wf.trace[j] = first /\ wf.trace[k] = second

\* C11: unstakeAndRemoveLiquidity(poolName), when the staked positions it
\* looks up hold none whose pool name equals poolName in lower case,
\* returns success:false, unstaked:false, removed:false; it has invoked
\* neither unstakeLPTokens nor removeLiquidity, has submitted no unstake
\* and no remove-liquidity transaction, and has made no chain call after
\* the position lookup returned
C11_NoPositionNoUnstake ==
    (/\ Returns("unstakeAndRemoveLiquidity")
     /\ Invoked("getStakedPositions")
     /\ \A i \in 1..Len(wf.staked) :
            toLowerCase(wf.staked[i].poolName) # toLowerCase(wf.arg.poolName))
    => /\ ~wf.result.success
       /\ ~wf.result.out.unstaked
       /\ ~wf.result.out.removed
       /\ ~Invoked("unstakeLPTokens")
       /\ ~Invoked("removeLiquidity")
       /\ \A i \in 1..Len(wf.trace) :
             wf.trace[i] \notin {Tx("manager", "unstakeLPTokens"),
                                 Tx("manager", "removeLiquidityAerodrome")}
       /\ Len(wf.trace) = wf.looked

\* the lookup returned staked positions, of other pools only
C11_Witness ==
    /\ Returns("unstakeAndRemoveLiquidity")
    /\ Invoked("getStakedPositions")
    /\ wf.staked # <<>>
    /\ \A i \in 1..Len(wf.staked) :
           toLowerCase(wf.staked[i].poolName) # toLowerCase(wf.arg.poolName)
    /\ ~wf.result.success

UnstakeSucceeded == wf.unstake.op # "none" /\ wf.unstake.success
RemoveSucceeded == wf.remove.op # "none" /\ wf.remove.success

\* C12: in the result of unstakeAndRemoveLiquidity, success is false exactly
\* when no unstakeLPTokens call succeeded, and then unstaked and removed
\* are false; once the unstaking succeeded, success and unstaked are true
\* and removed is true exactly when removeLiquidity succeeded; removed:true
\* comes with unstaked:true
C12_StagedResult ==
    Returns("unstakeAndRemoveLiquidity")
    => /\ wf.result.success <=> UnstakeSucceeded
       /\ wf.result.out.unstaked <=> UnstakeSucceeded
       /\ wf.result.out.removed <=> (UnstakeSucceeded /\ RemoveSucceeded)
       /\ wf.result.out.removed => wf.result.out.unstaked

\* the unstaking succeeded and the removal was tried and failed
C12_Witness ==
    /\ Returns("unstakeAndRemoveLiquidity")
    /\ UnstakeSucceeded
    /\ wf.remove.op # "none"
    /\ ~wf.remove.success
    /\ wf.result.success
    /\ ~wf.result.out.removed

\* C13: in depositTokens the deposit transaction is submitted only after the
\* approval transaction, when the allowance is below the amount, was
\* submitted and waited for; in unstakeAndRemoveLiquidity the
\* remove-liquidity transaction is submitted only after the unstake
\* transaction was submitted and waited for and unstakeLPTokens returned
\* success.  A call that throws is the last of its method's trace, so a
\* later call means the wait returned.
C13_StepsInOrder ==
    /\ (wf.pc = "done" /\ wf.fn = "depositTokens" /\ Invoked("depositTokens")
         /\ "allowance" \in DOMAIN wf.result.out)
       => \A i \in 1..Len(wf.trace) :
             (/\ wf.trace[i] = Tx("manager", "depositTokens")
              /\ BigLess(wf.result.out.allowance, wf.result.out.parsedAmount))
             => Before(Tx("erc20", "approve"), Wait("erc20", "approve"), i)
    /\ (wf.pc # "none" /\ wf.fn = "unstakeAndRemoveLiquidity")
       => \A i \in 1..Len(wf.trace) :
             wf.trace[i] = Tx("manager", "removeLiquidityAerodrome")
             => /\ UnstakeSucceeded
                /\ Before(Tx("manager", "unstakeLPTokens"),
                          Wait("manager", "unstakeLPTokens"), i)

\* a deposit that needed the approval and went through
C13_Witness ==
    /\ Returns("depositTokens")
    /\ wf.result.success
    /\ wf.result.out.allowance = Big0
    /\ \E i \in 1..Len(wf.trace) : wf.trace[i] = Tx("erc20", "approve")
    /\ \E i \in 1..Len(wf.trace) : wf.trace[i] = Tx("manager", "depositTokens")

\* C14: the orchestrator's withdrawTokens, given an amount text that is
\* neither "ALL" nor "MAX" and that parseFloat reads as NaN, returns
\* success:false and has made no chain call, its initialize() included
C14_RejectsBeforeChain ==
    (/\ Returns("withdrawTokens")
     /\ wf.arg.amount \notin {"ALL", "MAX"}
     /\ "nan" \in DOMAIN parseFloat(wf.arg.amount))
    => /\ ~wf.result.success
       /\ wf.trace = <<>>

\* C15: a withdrawTokens(symbol, "ALL") that succeeds has sent the balance
\* it read as the amount of the withdraw transaction, and its result
\* reports amount as that balance divided by 10^decimals
C15_AllReportsBalance ==
    (/\ Returns("withdrawTokens")
     /\ wf.arg.amount = "ALL"
     /\ wf.result.success)
    => /\ wf.result.out.parsedAmount = wf.balance
       /\ wf.result.out.amount = FormatUnits(wf.balance, TokenDecimals(wf.arg.tokenSymbol))

\* the position lookup of claimPoolRewards returned the staked positions,
\* and the first one of the pool has earned nothing or none is of the pool
NothingToClaim ==
    /\ Returns("claimPoolRewards")
    /\ Invoked("getStakedPositions")
    /\ wf.result.message # "Could not retrieve staked positions"
    /\ LET ofPool == FindPosition(wf.staked, wf.arg.poolName)
       IN  ofPool = <<>> \/ ofPool[1].earned = Big0

OneToken == <<0, 0, 0, 0, 100>>

\* claimAllRewards has gone through the staked positions
WentThroughPositions == last.op = "claimAllRewards" /\ "stakedPositions" \in DOMAIN last.out

\* C17: claimAllRewards attempts a claim for a staked position if and only
\* if its raw earned amount is at least 10^18; when no position earned that
\* much it returns success:false and has submitted no transaction
C17_ClaimsFromOneToken ==
    WentThroughPositions
    => LET staked == last.out.stakedPositions
           claimed(p) == \E j \in 1..Len(last.out.attempted) : last.out.attempted[j] = p.lpToken
       IN  /\ \A i \in 1..Len(staked) : claimed(staked[i]) <=> BigLeq(OneToken, staked[i].earned)
           /\ (\A i \in 1..Len(staked) : BigLess(staked[i].earned, OneToken))
              => ~last.success /\ TxsOf(last.trace) = {}

\* C18: claimAllRewards calls claimRewards once for every position past its
\* threshold, in their order, whatever the earlier calls returned, and
\* its result has success:true exactly when one of those calls returned
\* success
C18_ClaimsIndependent ==
    WentThroughPositions
    => LET claimable == SelectSeq(last.out.stakedPositions,
                                  LAMBDA p : EarnsAtLeastOne(p.earned))
       IN  /\ Len(last.out.attempted) = Len(claimable)
           /\ Len(last.out.outcomes) = Len(claimable)
           /\ \A i \in 1..Len(claimable) : last.out.attempted[i] = claimable[i].lpToken
           /\ last.success <=> \E i \in 1..Len(claimable) : last.out.outcomes[i]
           /\ Len(last.out.results) = Cardinality({i \in 1..Len(claimable) : last.out.outcomes[i]})

\* the first claim failed and the second was made and succeeded
C18_Witness ==
    /\ WentThroughPositions
    /\ last.out.outcomes = <<FALSE, TRUE>>
    /\ last.success

\* a step in which createManager() runs, and its lookup of the existing
\* manager was answered with a manager
CreateManagerRuns == last.op = "none" /\ last'.op = "createManager"
LookupFindsManager ==
    /\ chainManager # ZeroAddress
    /\ last'.trace # <<>>
    /\ last'.message # "Could not check if user has an existing manager."
CreationTxs(trace) == {i \in 1..Len(trace) : trace[i] = Tx("factory", "createManager")}

\* createManager() returns the manager the factory reported, and has not
\* tried to create one (the manager ABI being loadable)
ReturnsExisting ==
    /\ CreationTxs(last'.trace) = {}
    /\ abis.manager = "ok"
       => /\ last'.success
          /\ last'.out.managerAddress = chainManager
          /\ last'.out.alreadyExists

RECURSIVE NatOf(_)
NatOf(a) == IF a = <<>> THEN 0 ELSE Head(a) + Base * NatOf(Tail(a))

\* createManager() has gone into its retry loop
CreateLooped == last.op = "createManager" /\ "tries" \in DOMAIN last.out /\ last.out.tries > 0

\* at most three creation transactions, attempt k with the fees
\* base * (15 + 5k) / 10 and priority * (20 + 10k) / 10 where getFeeData
\* reports them, and no attempt after one that was confirmed
BoundedEscalating ==
    LET out == last.out IN
    /\ out.tries <= 3
    /\ Cardinality(CreationTxs(last.trace)) = out.tries
    /\ Len(out.fees) = out.tries
    /\ \A i \in 1..out.tries :
          /\ out.gasPrice.maxFeePerGas # NoFee
             => NatOf(out.fees[i].maxFeePerGas)
                = (NatOf(out.gasPrice.maxFeePerGas) * (15 + 5 * (i - 1))) \div 10
          /\ out.gasPrice.maxPriorityFeePerGas # NoFee
             => NatOf(out.fees[i].maxPriorityFeePerGas)
                = (NatOf(out.gasPrice.maxPriorityFeePerGas) * (20 + 10 * (i - 1))) \div 10
    /\ \A i \in 1..(out.tries - 1) : out.met[i] # "mined"

----------------------------------------------------------------------------
(* Staked positions *)

StakedReturned == last.op = "getStakedPositions" /\ last.success
GaugeLookups(trace) == {i \in 1..Len(trace) : trace[i] = Read("voter", "gauges")}
SameLpToken(a, b) == Lower(a) = Lower(b)

\* C21: getStakedPositions() examines each LP token address, compared
\* without regard to case, at most once over both candidate sources: it
\* looks up no more gauges than there are distinct addresses, and the
\* stakedPositions it returns never hold two entries of one LP token.
C21_NoDuplicateLpToken ==
    StakedReturned =>
        /\ \A i, j \in 1..Len(last.out.stakedPositions) :
               SameLpToken(last.out.stakedPositions[i].lpToken,
                           last.out.stakedPositions[j].lpToken) => i = j
        /\ Cardinality(GaugeLookups(last.trace)) <= Cardinality({Lower(a) : a \in LPTokens})

\* the LP positions list one LP token twice in two spellings, and that LP
\* token is returned as staked
C21_Witness ==
    /\ StakedReturned
    /\ \E i, j \in 1..Len(last.out.positions) :
          /\ i # j
          /\ last.out.positions[i].lpToken # last.out.positions[j].lpToken
          /\ SameLpToken(last.out.positions[i].lpToken, last.out.positions[j].lpToken)
          /\ \E k \in 1..Len(last.out.stakedPositions) :
                SameLpToken(last.out.stakedPositions[k].lpToken, last.out.positions[i].lpToken)

\* the LP tokens getStakedPositions has to examine: those of the LP
\* positions, and the pools the chain reports for the common token pairs
\* the address table can spell
CandidateLpTokens ==
    {last.out.positions[i].lpToken : i \in 1..Len(last.out.positions)} \cup
    {last.out.pairAnswers[i].mgr : i \in {k \in 1..Len(CommonTokenPairs) :
        /\ CommonTokenPairs[k][1] \in addresses /\ CommonTokenPairs[k][2] \in addresses
        /\ last.out.pairAnswers[k].mgr \notin {THROWS, ZeroAddress}}} \cup
    {last.out.pairAnswers[i].fac : i \in {k \in 1..Len(CommonTokenPairs) :
        /\ CommonTokenPairs[k][1] \in addresses /\ CommonTokenPairs[k][2] \in addresses
        /\ last.out.pairAnswers[k].mgr \in {THROWS, ZeroAddress}
        /\ last.out.pairAnswers[k].fac \notin {THROWS, ZeroAddress}}}

\* the gauge of LP token a answers, and holds a staked balance above zero
StakedOnChain(a) ==
    LET info == last.out.gaugeAnswers[Lower(a)]
    IN  /\ info.gauge \notin {THROWS, ZeroAddress}
        /\ info.staked # READFAIL /\ info.staked # Big0

\* C22: getStakedPositions() past its guard returns success:true whatever
\* pair lookup, gauge lookup, staked-balance read or earned read fails, and
\* with a voter handle its stakedPositions hold every candidate LP token
\* whose gauge is non-zero and whose staked balance was read above zero,
\* with that gauge and balance, whatever failed for the other candidates.
C22_ReturnsAllDetermined ==
    last.op = "getStakedPositions" =>
        /\ last.success \/ last.message = MsgNotInitialized
        /\ last.success /\ last.out.voterContract # Null =>
              \A a \in CandidateLpTokens :
                  StakedOnChain(a) =>
                      \E k \in 1..Len(last.out.stakedPositions) :
                          /\ SameLpToken(last.out.stakedPositions[k].lpToken, a)
                          /\ last.out.stakedPositions[k].gauge
                                = last.out.gaugeAnswers[Lower(a)].gauge
                          /\ last.out.stakedPositions[k].stakedBalance
                                = last.out.gaugeAnswers[Lower(a)].staked

\* one candidate's reads fail and another candidate is returned as staked
C22_Witness ==
    /\ StakedReturned
    /\ Cardinality({Lower(a) : a \in CandidateLpTokens}) = 2
    /\ \E a, b \in CandidateLpTokens :
          /\ ~StakedOnChain(a) /\ StakedOnChain(b)
          /\ last.out.gaugeAnswers[Lower(a)].gauge = THROWS
                \/ last.out.gaugeAnswers[Lower(a)].staked = READFAIL
          /\ \E k \in 1..Len(last.out.stakedPositions) :
                SameLpToken(last.out.stakedPositions[k].lpToken, b)

----------------------------------------------------------------------------
(* Numeric coercion *)

\* C24: toBigInt is total: whatever value it is given it returns an integer
\* and does not throw.
C24_NeverThrows == last.op = "toBigInt" => ~last.result.threw

\* C25: toBigInt is lossless: an unsigned integer n below 2^256 given as a
\* native bigint, a 0x-prefixed hex string, a decimal string or a boxed
\* number comes back as exactly n.
C25_Lossless ==
    last.op = "toBigInt" /\ last.form # "other" =>
        last.result = Integer(FALSE, last.integer)

----------------------------------------------------------------------------
(* Claimable fees *)

FeesReturned == last.op = "getClaimableFees" /\ last.message # MsgNotInitialized
FallbackRan == \E i \in 1..Len(last.trace) : last.trace[i] = Read("manager", "getAerodromePair")
IsUnsigned(n) == ~n.threw /\ ~n.neg

\* C23: getClaimableFees is two-tier: the direct pool query runs only when
\* the manager's view threw or gave a result without lpBalance,
\* claimable0Amount or claimable1Amount, never after a well-formed result;
\* and every success:true result of either tier carries lpBalance,
\* claimable0 and claimable1 as non-negative integers.
C23_TwoTier ==
    FeesReturned =>
        /\ FallbackRan => last.out.primary \in {"throws", "malformed"}
        /\ last.out.primary = "ok" => last.success /\ last.out.tier = "manager"
        /\ last.success =>
              /\ {"lpBalance", "claimable0", "claimable1"} \subseteq DOMAIN last.out
              /\ IsUnsigned(last.out.lpBalance)
              /\ IsUnsigned(last.out.claimable0)
              /\ IsUnsigned(last.out.claimable1)

\* the view gave a result without the fields, and the pool answered
C23_Witness ==
    /\ FeesReturned /\ last.success
    /\ last.out.primary = "malformed" /\ last.out.tier = "pool"
    /\ last.out.claimable1.abs = Big5e16
    /\ last.trace[Len(last.trace)] = Read("erc20", "balanceOf")

----------------------------------------------------------------------------
(* The pool catalog *)

\* the pool name is made of two symbols the address table resolves
ResolvablePair(poolName) ==
    /\ Len(SplitPoolName(poolName)) = 2
    /\ \A i \in 1..2 : SplitPoolName(poolName)[i] \in addresses

\* after the unstaking the manager lists the LP position of the pair: the
\* LP token that was unstaked, with the two tokens of the pool name
HoldsLpPosition ==
    \E i \in 1..Len(wf.positions) :
        /\ SameLpToken(wf.positions[i].lpToken, wf.found[1].lpToken)
        /\ {wf.positions[i].token0, wf.positions[i].token1}
             = {SplitPoolName(wf.arg.poolName)[1], SplitPoolName(wf.arg.poolName)[2]}

\* C26: the pool catalog is no constraint: unstakeAndRemoveLiquidity for a
\* pool name of two resolvable symbols, in the catalog or not, that has
\* unstaked and finds the pair's LP position in the manager goes on to
\* remove the liquidity: it does not end for want of an LP position or of
\* a known pool.
C26_CatalogNoConstraint ==
    /\ Returns("unstakeAndRemoveLiquidity")
    /\ ResolvablePair(wf.arg.poolName)
    /\ wf.result.out.unstaked /\ HoldsLpPosition
    => /\ Invoked("removeLiquidity")
       /\ wf.remove.message # "Unknown pool"


\* the call ended in getAerodromeManager(), on a missing provider URL or key
ConfigurationError ==
    /\ wf.steps = <<>>
    /\ ~(wf.fn \in SplitsFirst /\ Len(SplitPoolName(wf.arg.poolName)) # 2)

\* the pool name a function splits is not two symbols, or a symbol has no
\* address
ResolutionError ==
    \/ /\ wf.fn \in SplitsFirst
       /\ \/ Len(SplitPoolName(wf.arg.poolName)) # 2
          \/ \E i \in 1..2 : ~HasAddress(SplitPoolName(wf.arg.poolName)[i])
    \/ "tokenSymbol" \in DOMAIN wf.arg /\ ~HasAddress(wf.arg.tokenSymbol)

\* the manager the call works through has no manager contract (that of
\* claimPoolFees is gone when it returns), the pool has no staked position,
\* the balance to withdraw is zero, or the pool owes no fees
StatePreconditionError ==
    \/ Invoked("initialize") /\ NoManagerContract("M1") /\ wf.fn # "claimPoolFees"
    \/ Invoked("getStakedPositions") /\ wf.found = <<>>
    \/ wf.fn = "withdrawTokens" /\ wf.balance = Big0
    \/ wf.fn = "claimPoolFees" /\ Invoked("claimFees") /\ wf.claimable = Big0

\* a returned result that tells a failure and says why
TellsFailure(result) ==
    /\ "thrown" \notin DOMAIN result
    /\ \/ "success" \in DOMAIN result /\ ~result.success /\ result.message # ""
       \/ /\ "list" \in DOMAIN result
          /\ \E i \in 1..Len(result.list) :
                ~result.list[i].success /\ result.list[i].message # ""

\* C27: an orchestrator operation that meets a resolution error (unknown
\* token symbol, pool name that is not two symbols) or a state-precondition
\* error (no manager, no staked position, zero balance, nothing to claim)
\* does not throw: it returns a result with success:false and a message
C27_ErrorsReturnedAsFailures ==
    wf.pc = "done" /\ ~ConfigurationError /\ (ResolutionError \/ StatePreconditionError)
        => TellsFailure(wf.result)

\* C28: the result of a claimAllRewards() that claimed from some position
\* has an entry for every position it attempted a claim for, the failed
\* ones included
C28_EveryAttemptReported ==
    WentThroughPositions /\ last.success
    => \A i \in 1..Len(last.out.attempted) :
          \E j \in 1..Len(last.out.results) :
             last.out.results[j].lpToken = last.out.attempted[i]

\* C29: createManager() submits a creation transaction only when the one it
\* submitted before is no longer pending: it is confirmed, or it has
\* failed, or its submission was rejected
C29_OneTransactionPending ==
    CreateLooped => \A k \in 2..last.out.tries : last.out.met[k - 1] # "timeout"

\* C30: the initializing guard is held only while an initialize() call is
\* running: when the caller of the session has no initialize() under way,
\* whatever its last one returned, initializing is false
C30_GuardHeldOnlyWhileRunning ==
    call["A"].pc \in {"idle", "done"} => ~sess["S"].initializing

\* the last creation attempt of createManager() was rejected by the factory
\* because the user has a manager, with an error that says so, and the
\* lookup that follows answered
RejectedWithCause ==
    /\ CreateLooped
    /\ last.out.met[last.out.tries] # "mined"
    /\ last.out.existed[last.out.tries]
    /\ last.out.namesCause /\ last.out.lookupOk

IncludesInsufficientBalance(message) ==
    message \in {"Insufficient balance for one or both tokens",
                 "Insufficient balance in manager"}

\* an add-liquidity result of the orchestrator for which the manager held
\* nothing of a leg: the balance read answered zero, or it failed and
\* getManagerBalances filled in zero
HeldNothingOfALeg(r) ==
    /\ HasReads(r)
    /\ \E i \in 1..Len(r.out.reads) : r.out.reads[i] \in {Big0, READFAIL}

\* C32: when the manager holds nothing of a leg of the pool, by a read of
\* zero or by a failed read filled with zero, the add-liquidity result of
\* the orchestrator (addLiquidity, and addLiquidityAndStake which returns
\* its message) fails with a message that includes 'Insufficient balance'
C32_ZeroLegSaysInsufficient ==
    (wf.pc # "none" /\ HeldNothingOfALeg(wf.add))
    => ~wf.add.success /\ IncludesInsufficientBalance(wf.add.message)

\* a success result of getLPPositions(), the reads of its two paths, and
\* the catalog pools the fallback can ask about
LpListed == last.op = "getLPPositions" /\ last.success
PairReads(trace) == {i \in 1..Len(trace) : trace[i][2] = "pair"}
FallbackReads(trace) ==
    {i \in 1..Len(trace) : trace[i] = Read("manager", "getAerodromePools")}
AskablePools ==
    {i \in PoolIdx : HasAddress(POOLS[i].tokenA.symbol) /\ HasAddress(POOLS[i].tokenB.symbol)}
NoTwoForOneToken(positions) ==
    \A i, j \in 1..Len(positions) :
        Lower(positions[i].lpToken) = Lower(positions[j].lpToken) => i = j

StakeSubmitted ==
    /\ last.op = "stakeLPTokens"
    /\ \E i \in 1..Len(last.trace) : last.trace[i] = Tx("manager", "stakeLPTokens")

\* C34: stakeLPTokens() submits the stake transaction only for a non-zero
\* gauge and a non-zero LP balance of the manager; with "MAX" the amount
\* staked is the balance read, with a numeric amount it is that amount, and
\* it never exceeds the balance read; a result that succeeded submitted it
C34_StakeWithinBalance ==
    /\ StakeSubmitted =>
          /\ last.out.gaugeAddress \notin {ZeroAddress, THROWS}
          /\ last.out.balance \notin {Big0, READFAIL}
          /\ last.out.amount = MAX => last.out.stakeAmount = last.out.balance
          /\ last.out.amount # MAX => last.out.stakeAmount = last.out.amount
          /\ ~BigLess(last.out.balance, last.out.stakeAmount)
    /\ (last.op = "stakeLPTokens" /\ last.success) => StakeSubmitted

\* "MAX" staked the whole of a balance, and a numeric amount below the
\* balance was staked
C34_Witness ==
    /\ StakeSubmitted /\ last.success
    /\ last.out.amount = MAX /\ last.out.stakeAmount = Big1e8

C34_WitnessNumeric ==
    /\ StakeSubmitted /\ last.success
    /\ last.out.amount = Big1 /\ last.out.balance = Big1e8

\* a result of depositTokens() and where its calls stand in the trace
Deposited == last.op = "depositTokens"
ApproveCalls(trace) == {i \in 1..Len(trace) : trace[i] = Tx("erc20", "approve")}
ApproveConfirmed(trace, before) ==
    \E i \in 1..(before - 1) : trace[i] = Wait("erc20", "approve")
DepositCalls(trace) == {i \in 1..Len(trace) : trace[i] = Tx("manager", "depositTokens")}

\* C35: depositTokens() makes no chain call for a token symbol the address
\* table lacks and returns success:false; once the allowance read has
\* answered, it calls approve exactly when the allowance is less than the
\* raw amount, and at most once; it calls the manager's depositTokens only
\* after the allowance read, after the confirmation of the approval when
\* one was needed, and with no approval before it when none was
C35_ApproveOnlyIfNeeded ==
    Deposited =>
        /\ last.message = "Unknown token" => last.trace = <<>> /\ ~last.success
        /\ last.trace # <<>> =>
              /\ HasAddress(last.out.tokenSymbol)
              /\ last.trace[1] = Read("erc20", "allowance")
              /\ Cardinality(ApproveCalls(last.trace)) <= 1
              /\ Len(last.trace) > 1 =>
                    (ApproveCalls(last.trace) # {}
                        <=> BigLess(last.out.allowance, last.out.parsedAmount))
              /\ \A i \in DepositCalls(last.trace) :
                    /\ i > 1
                    /\ BigLess(last.out.allowance, last.out.parsedAmount)
                          => ApproveConfirmed(last.trace, i)
                    /\ \A j \in ApproveCalls(last.trace) : j < i
        /\ last.success => DepositCalls(last.trace) # {}

\* a deposit that needed the approval and was made after its confirmation
C35_Witness ==
    /\ Deposited /\ last.success
    /\ BigLess(last.out.allowance, last.out.parsedAmount)
    /\ ApproveCalls(last.trace) = {2} /\ DepositCalls(last.trace) = {4}

\* a deposit the allowance covered
C35_WitnessCovered ==
    /\ Deposited /\ last.success
    /\ ApproveCalls(last.trace) = {} /\ DepositCalls(last.trace) = {2}

\* the managers an orchestrator request has created and initialized so
\* far: M1 by the function called, M2 by the function it calls in turn
ManagersOfRequest == {s \in {"M1", "M2"} : sess[s] # NewSession}

\* C36: while one orchestrator request runs, at most one AerodromeManager
\* has been created and initialized for it
C36_OneManagerPerRequest ==
    wf.pc # "none" => Cardinality(ManagersOfRequest) <= 1

\* the submissions of the factory-pointer transaction in the trace of a
\* call of initialize()
ConfigTxs(trace) == {i \in 1..Len(trace) : trace[i] = Tx("manager", "setAerodromeFactory")}
MsgConfigFailed ==
    "Failed to set Aerodrome factory address. Please check contract permissions."

\* C37: a call of initialize() submits no transaction but the one that
\* sets the factory pointer, at most once, right after the read of the
\* pointer and only when that read gave null (it threw) or the zero
\* address; when the submission or its confirmation fails the call
\* returns success:false and the session is not initialized
C37_ConfiguresOnlyWhenUnset ==
    \A c \in Calls :
        /\ TxsOf(call[c].trace) = ConfigTxs(call[c].trace)
        /\ Cardinality(ConfigTxs(call[c].trace)) <= 1
        /\ \A i \in ConfigTxs(call[c].trace) :
              /\ i > 1 /\ call[c].trace[i - 1] = Read("manager", "aerodromeFactory")
              /\ call[c].aerodromeFactoryAddress \in {Null, ZeroAddress}
        /\ (call[c].pc = "done" /\ call[c].ret.message = MsgConfigFailed) =>
              /\ ~call[c].ret.success
              /\ ConfigTxs(call[c].trace) # {}
              /\ ~sess[SessionOf(c)].initialized

\* the pointer read gave the zero address and the transaction failed
C37_Witness ==
    /\ call["A"].pc = "done" /\ call["A"].ret.message = MsgConfigFailed
    /\ call["A"].aerodromeFactoryAddress = ZeroAddress
    /\ ConfigTxs(call["A"].trace) # {}

\* the pointer was set on the chain and initialize() returned without a
\* transaction
C37_WitnessSet ==
    /\ call["A"].pc = "done" /\ call["A"].ret.success
    /\ \E i \in 1..Len(call["A"].trace) : call["A"].trace[i] = Read("manager", "aerodromeFactory")
    /\ TxsOf(call["A"].trace) = {}

\* the sum of the earned amounts of a list of staked positions
RECURSIVE EarnedSum(_)
EarnedSum(stakedPositions) ==
    IF stakedPositions = <<>> THEN Big0
    ELSE BigPlus(Head(stakedPositions).earned, EarnedSum(Tail(stakedPositions)))

StakedListed == last.op = "getStakedPositions" /\ last.success

\* C38: in a success result of getStakedPositions() totalRewards is the sum
\* of the earned amounts of the entries of stakedPositions, an entry whose
\* earned read failed counting zero and any other what the gauge answered,
\* and gauges has the length of stakedPositions with gauges[i] the gauge
\* of entry i
C38_TotalsMatchEntries ==
    StakedListed =>
        /\ last.out.totalRewards = EarnedSum(last.out.stakedPositions)
        /\ Len(last.out.gauges) = Len(last.out.stakedPositions)
        /\ \A i \in 1..Len(last.out.stakedPositions) :
              LET entry == last.out.stakedPositions[i]
                  read  == last.out.gaugeAnswers[Lower(entry.lpToken)].earned
              IN  /\ last.out.gauges[i] = entry.gauge
                  /\ entry.earned = IF read = READFAIL THEN Big0 ELSE read

\* two staked positions with earnings whose sum carries into higher limbs
C38_Witness ==
    /\ StakedListed
    /\ Len(last.out.stakedPositions) = 2
    /\ last.out.stakedPositions[1].earned = <<9999, 9999, 9999, 9999, 99>>
    /\ last.out.totalRewards = <<9999, 9999, 9999, 9999, 199>>

\* a staked position whose earned read failed, listed with zero
C38_WitnessFailedRead ==
    /\ StakedListed
    /\ \E i \in 1..Len(last.out.stakedPositions) :
          /\ last.out.gaugeAnswers[Lower(last.out.stakedPositions[i].lpToken)].earned = READFAIL
          /\ last.out.stakedPositions[i].earned = Big0
    /\ last.out.totalRewards # Big0

\* what holds of an initialized session: the lock is free, the manager
\* address is the non-zero one the factory holds for the user, and the
\* manager handle is bound to it
InitializedSession(s) ==
    sess[s].initialized =>
        /\ ~sess[s].initializing
        /\ sess[s].managerAddress \notin {Null, ZeroAddress}
        /\ sess[s].managerAddress = chainManager
        /\ sess[s].managerContract = sess[s].managerAddress

\* the reads of initialize() up to and past the ownership check
PassedOwnerCheck(trace) ==
    \E i, j, k \in 1..Len(trace) :
        /\ i < j /\ j < k
        /\ trace[i] = Read("factory", "getUserManager")
        /\ trace[j] = Read("manager", "owner")
        /\ trace[k] = Read("manager", "aerodromeFactory")

\* one step of the session: initialized is set only by the successful
\* return of an initialize() that went past the ownership check, and from
\* then on it stays set and the manager address stays what it was
InitializedStep(s) ==
    /\ sess[s].initialized =>
          /\ sess'[s].initialized
          /\ sess'[s].managerAddress = sess[s].managerAddress
    /\ (~sess[s].initialized /\ sess'[s].initialized) =>
          \E c \in Calls :
              /\ SessionOf(c) = s
              /\ call'[c].pc = "done" /\ call'[c].ret.success
              /\ call'[c].ret.managerAddress = sess'[s].managerAddress
              /\ PassedOwnerCheck(call'[c].trace)

\* C39: in an initialized session initializing is false, managerAddress is
\* the non-zero address the factory holds for the caller and the manager
\* handle is bound to it; initialized is set only by an initialize() that
\* passed the ownership check; once set it is never cleared, and no
\* operation, createManager() included, changes managerAddress afterwards
C39_InitializedSessionStable ==
    [](InitializedSession("S")) /\ [][InitializedStep("S")]_vars

\* createManager() ran on the initialized session and found its manager
C39_Witness ==
    /\ sess["S"].initialized
    /\ last.op = "createManager" /\ last.success
    /\ last.pre.initialized
    /\ sess["S"].managerAddress = last.pre.managerAddress

\* a result of withdrawTokens() whose withdraw transaction was submitted
WithdrawSubmitted ==
    /\ last.op = "withdrawTokens"
    /\ \E i \in 1..Len(last.trace) : last.trace[i] = Tx("manager", "withdrawTokens")

\* C40: withdrawTokens() submits the withdraw transaction only after the
\* balance read answered, with a raw amount that is the balance for "ALL"
\* and the amount asked for otherwise, never more than the balance read,
\* and with the signer's address as recipient; a result that says
\* 'Insufficient balance' failed after the balance read alone
C40_WithdrawWithinBalance ==
    /\ WithdrawSubmitted =>
          /\ last.trace[1] = Read("manager", "getTokenBalance")
          /\ last.out.currentBalance # READFAIL
          /\ last.out.requested = ALL => last.out.parsedAmount = last.out.currentBalance
          /\ last.out.requested # ALL => last.out.parsedAmount = last.out.requested
          /\ ~BigLess(last.out.currentBalance, last.out.parsedAmount)
          /\ last.out.recipient = User
    /\ (last.op = "withdrawTokens" /\ last.message = "Insufficient balance") =>
          /\ ~last.success
          /\ last.trace = <<Read("manager", "getTokenBalance")>>
    /\ (last.op = "withdrawTokens" /\ last.success) => WithdrawSubmitted

\* a numeric amount below the balance was withdrawn
C40_Witness ==
    /\ WithdrawSubmitted /\ last.success
    /\ last.out.requested = Big1 /\ last.out.currentBalance = Big1e8

\* an amount above the balance was refused
C40_WitnessRefused ==
    last.op = "withdrawTokens" /\ last.message = "Insufficient balance"
=============================================================================
